---------------------------- MODULE Spec2Model ----------------------------
(***************************************************************************)
(* A model of nlohmann::yaml_parser (src/include/nlohmann/yaml.hpp).       *)
(*                                                                         *)
(* Text is modelled as a sequence of characters, every character a string  *)
(* of length one ("NUL" stands for the zero character).  Positions are     *)
(* 0-based as in the C++ source; NPOS stands for std::string::npos.        *)
(*                                                                         *)
(* The parser's member functions are operators that take the parser object *)
(* p = [lines, oob], the cursor current_line and the event log so far, and *)
(* return a record [v, cur, err, log]: the value, the cursor after the     *)
(* call, the exception leaving the call (NoErr when it returns normally)   *)
(* and the log extended by the call's events in program order.             *)
(***************************************************************************)
EXTENDS Integers, Sequences, FiniteSets, TLC

----------------------------------------------------------------------------
(* Characters and std::string operations *)

NPOS == -1

NUL == "NUL"

QUOTE == "\""

APOS == "'"

BSLASH == "\\"

\* the printable ASCII characters, code 32 to 126, in code order
Printable ==
    << " ", "!", "\"", "#", "$", "%", "&", "'", "(", ")", "*", "+", ",", "-", ".", "/",
       "0", "1", "2", "3", "4", "5", "6", "7", "8", "9", ":", ";", "<", "=", ">", "?",
       "@", "A", "B", "C", "D", "E", "F", "G", "H", "I", "J", "K", "L", "M", "N", "O",
       "P", "Q", "R", "S", "T", "U", "V", "W", "X", "Y", "Z", "[", "\\", "]", "^", "_",
       "BACKTICK", "a", "b", "c", "d", "e", "f", "g", "h", "i", "j", "k", "l", "m", "n", "o",
       "p", "q", "r", "s", "t", "u", "v", "w", "x", "y", "z", "{", "|", "}", "~" >>

\* the code of a character (unsigned char), the order std::string compares by
Ord(c) ==
    IF c = NUL THEN 0
    ELSE IF c = "\t" THEN 9
    ELSE IF c = "\n" THEN 10
    ELSE IF c = "\r" THEN 13
    ELSE 31 + (CHOOSE i \in 1..Len(Printable) : Printable[i] = c)

Digits == {"0", "1", "2", "3", "4", "5", "6", "7", "8", "9"}

\* the value of a digit in a base up to 16, or 99 when c is no digit
DigitVal(c) ==
    IF c \in Digits THEN Ord(c) - 48
    ELSE IF c \in {"a", "b", "c", "d", "e", "f"} THEN Ord(c) - 87
    ELSE IF c \in {"A", "B", "C", "D", "E", "F"} THEN Ord(c) - 55
    ELSE 99

\* std::isspace in the "C" locale (form feed and vertical tab are outside the model)
IsSpace(c) == c \in {" ", "\t", "\n", "\r"}

\* s[i] of a std::string: s[size()] is the zero character
CharAt(s, i) == IF i >= 0 /\ i < Len(s) THEN s[i + 1] ELSE NUL

\* s.substr(pos): the caller has checked pos <= size()
SubstrFrom(s, pos) == SubSeq(s, pos + 1, Len(s))

\* s.substr(pos, n): n is a size_t, so a negative difference wraps to a huge count
Substr(s, pos, n) ==
    IF n < 0 \/ pos + n > Len(s) THEN SubSeq(s, pos + 1, Len(s))
    ELSE SubSeq(s, pos + 1, pos + n)

\* s.find(c, from)
RECURSIVE FindFrom(_, _, _)
FindFrom(s, c, from) ==
    IF from >= Len(s) THEN NPOS
    ELSE IF s[from + 1] = c THEN from
    ELSE FindFrom(s, c, from + 1)

Find(s, c) == FindFrom(s, c, 0)

\* s.find(" -")
RECURSIVE FindSpDashFrom(_, _)
FindSpDashFrom(s, from) ==
    IF from + 1 >= Len(s) THEN NPOS
    ELSE IF s[from + 1] = " " /\ s[from + 2] = "-" THEN from
    ELSE FindSpDashFrom(s, from + 1)

\* s.find_first_not_of(set)
RECURSIVE FirstNotOfFrom(_, _, _)
FirstNotOfFrom(s, set, from) ==
    IF from >= Len(s) THEN NPOS
    ELSE IF s[from + 1] \notin set THEN from
    ELSE FirstNotOfFrom(s, set, from + 1)

FindFirstNotOf(s, set) == FirstNotOfFrom(s, set, 0)

\* s.find_last_not_of(set)
RECURSIVE LastNotOfFrom(_, _, _)
LastNotOfFrom(s, set, from) ==
    IF from < 0 THEN NPOS
    ELSE IF s[from + 1] \notin set THEN from
    ELSE LastNotOfFrom(s, set, from - 1)

FindLastNotOf(s, set) == LastNotOfFrom(s, set, Len(s) - 1)

\* s.erase(0, s.find_first_not_of(" \t")): erase(0, npos) erases everything
LTrim(s) ==
    LET p == FindFirstNotOf(s, {" ", "\t"})
    IN  IF p = NPOS THEN <<>> ELSE SubstrFrom(s, p)

\* s.erase(s.find_last_not_of(" \t") + 1): npos + 1 is 0
RTrim(s) ==
    LET p == FindLastNotOf(s, {" ", "\t"})
    IN  SubSeq(s, 1, p + 1)

\* operator< of std::string: lexicographic by character code
RECURSIVE StrLess(_, _)
StrLess(a, b) ==
    IF b = <<>> THEN FALSE
    ELSE IF a = <<>> THEN TRUE
    ELSE IF a[1] = b[1] THEN StrLess(Tail(a), Tail(b))
    ELSE Ord(a[1]) < Ord(b[1])

----------------------------------------------------------------------------
(* Values: nlohmann::json, a tagged union.  Every value is a record [t, v]. *)

VNull == [t |-> "null", v |-> 0]

VBool(b) == [t |-> "bool", v |-> b]

\* an integer the model's arithmetic holds: |n| < 10^9
VInt(n) == [t |-> "int", v |-> n]

\* an integer of 10 to 19 digits within the 64-bit range, kept by sign and digits
VBig(neg, ds) == [t |-> "bigint", v |-> <<neg, ds>>]

\* a double: kind "fin" is (-1)^neg * 0.ds * 10^ex with ds free of leading and
\* trailing zeros (zero is ds = <<>>, ex = 0); kinds "inf" and "nan".  The decimal
\* value is kept as written: the rounding of a double past its 15 significant
\* digits is outside the model
VFloat(kind, neg, ds, ex) == [t |-> "float", v |-> <<kind, neg, ds, ex>>]

VStr(s) == [t |-> "str", v |-> s]

VArr(a) == [t |-> "arr", v |-> a]

\* an object: a sequence of <<key, value>> pairs in the order its iteration yields
VObj(o) == [t |-> "obj", v |-> o]

\* json::array() and json::object()
EmptyArr == VArr(<<>>)

EmptyObj == VObj(<<>>)

\* a container that keeps its members in insertion order, as an ordered_map would:
\* the variant of MapInsert the key-order properties must tell apart
MapAppend(o, key, val) ==
    IF \E i \in 1..Len(o) : o[i][1] = key
    THEN [i \in 1..Len(o) |-> IF o[i][1] = key THEN <<key, val>> ELSE o[i]]
    ELSE Append(o, <<key, val>>)

\* the position at which std::map keeps `key`: after every smaller key
RECURSIVE MapSlot(_, _, _)
MapSlot(o, key, i) ==
    IF i > Len(o) THEN i
    ELSE IF StrLess(o[i][1], key) THEN MapSlot(o, key, i + 1)
    ELSE i

\* object[key] = val on a json object: nlohmann::json keeps its members in a
\* std::map<std::string, json>, ordered by key; an existing key is overwritten
MapInsert(o, key, val) ==
    LET i == MapSlot(o, key, 1)
    IN  IF i <= Len(o) /\ o[i][1] = key
        THEN [o EXCEPT ![i] = <<key, val>>]
        ELSE SubSeq(o, 1, i - 1) \o << <<key, val>> >> \o SubSeq(o, i, Len(o))

ObjSet(obj, key, val) == VObj(MapInsert(obj.v, key, val))

\* array.push_back(val)
ArrPush(arr, val) == VArr(Append(arr.v, val))

\* the keys of an object in iteration order
RECURSIVE KeysOf(_)
KeysOf(o) == IF o = <<>> THEN <<>> ELSE <<o[1][1]>> \o KeysOf(Tail(o))

\* obj.contains(key) and obj[key]
HasKey(obj, key) == \E i \in 1..Len(obj.v) : obj.v[i][1] = key

Get(obj, key) == obj.v[CHOOSE i \in 1..Len(obj.v) : obj.v[i][1] = key][2]

----------------------------------------------------------------------------
(* Exceptions *)

\* no exception
NoErr == [k |-> "none", n |-> 0, s |-> <<>>]

\* std::runtime_error with the message's kind, its line number and its text part
Err(kind, n, s) == [k |-> kind, n |-> n, s |-> s]


----------------------------------------------------------------------------
(* Numeric conversions of the C++ library.  Results are [ok, v]: ok = FALSE   *)
(* stands for the exception the conversion throws.                            *)

INT_MAX == 2147483647

INT_MIN == (-2147483647) - 1

\* the end of the run of base-`base` digits of s that starts at pos
RECURSIVE DigitsEnd(_, _, _)
DigitsEnd(s, pos, base) ==
    IF pos < Len(s) /\ DigitVal(s[pos + 1]) < base THEN DigitsEnd(s, pos + 1, base)
    ELSE pos

\* the first position at or after pos that holds no white space
RECURSIVE SkipSpace(_, _)
SkipSpace(s, pos) ==
    IF pos < Len(s) /\ IsSpace(s[pos + 1]) THEN SkipSpace(s, pos + 1) ELSE pos

\* digits without leading zeros
RECURSIVE StripZeros(_)
StripZeros(ds) == IF ds # <<>> /\ ds[1] = "0" THEN StripZeros(Tail(ds)) ELSE ds

\* digits without trailing zeros
RECURSIVE StripTrailingZeros(_)
StripTrailingZeros(ds) ==
    IF ds # <<>> /\ ds[Len(ds)] = "0" THEN StripTrailingZeros(SubSeq(ds, 1, Len(ds) - 1))
    ELSE ds

\* the value of at most 9 decimal digits
RECURSIVE DecValue(_, _)
DecValue(ds, acc) ==
    IF ds = <<>> THEN acc ELSE DecValue(Tail(ds), acc * 10 + DigitVal(ds[1]))

\* a >= b for digit strings without leading zeros
DigitsGeq(a, b) == Len(a) > Len(b) \/ (Len(a) = Len(b) /\ ~StrLess(a, b))

LLONG_MAX_DIGITS == <<"9","2","2","3","3","7","2","0","3","6","8","5","4","7","7","5","8","0","7">>

LLONG_MIN_DIGITS == <<"9","2","2","3","3","7","2","0","3","6","8","5","4","7","7","5","8","0","8">>

NumFail == [ok |-> FALSE, v |-> VNull]

\* an integer from its sign and its digits without leading zeros; a failure when
\* it is outside 64 bits
IntOfStripped(neg, ds) ==
    IF Len(ds) <= 9
    THEN [ok |-> TRUE, v |-> VInt(IF neg THEN 0 - DecValue(ds, 0) ELSE DecValue(ds, 0))]
    ELSE IF DigitsGeq(IF neg THEN LLONG_MIN_DIGITS ELSE LLONG_MAX_DIGITS, ds)
    THEN [ok |-> TRUE, v |-> VBig(neg, ds)]
    ELSE NumFail

\* an integer from its sign and a non-empty run of decimal digits
IntOfDigits(neg, digits) == IntOfStripped(neg, StripZeros(digits))

\* the optional sign at p0: whether it is a minus, and the position after it
SignAt(s, p0) ==
    [neg |-> CharAt(s, p0) = "-",
     p1 |-> IF CharAt(s, p0) \in {"+", "-"} THEN p0 + 1 ELSE p0]

\* the digits of stoll after the sign sg
StollDigits(neg, run) == IF run = <<>> THEN NumFail ELSE IntOfDigits(neg, run)

StollFromWhole(s, sg) ==
    IF DigitsEnd(s, sg.p1, 10) < Len(s) THEN NumFail
    ELSE StollDigits(sg.neg, SubSeq(s, sg.p1 + 1, DigitsEnd(s, sg.p1, 10)))

StollFrom(s, sg) == StollDigits(sg.neg, SubSeq(s, sg.p1 + 1, DigitsEnd(s, sg.p1, 10)))

\* std::stoll(s): white space, a sign, decimal digits; what follows the digits is
\* ignored; throws when there is no digit or the value is out of range
stoll(s) == StollFrom(s, SignAt(s, SkipSpace(s, 0)))

\* the digits ds read in `base` and accumulated with the sign, within int
DigitChars == <<"0", "1", "2", "3", "4", "5", "6", "7", "8", "9">>

\* the decimal digits of n <= 0, without its sign
RECURSIVE DigitsOfNeg(_)
DigitsOfNeg(n) ==
    IF n > -10 THEN <<DigitChars[1 - n]>>
    ELSE Append(DigitsOfNeg((n + ((10 - (n % 10)) % 10)) \div 10),
                DigitChars[1 + ((10 - (n % 10)) % 10)])

\* the int n as a value
IntValue(n) ==
    IF n > -1000000000 /\ n < 1000000000 THEN VInt(n)
    ELSE VBig(n < 0, DigitsOfNeg(IF n < 0 THEN n ELSE 0 - n))

RECURSIVE AccInt(_, _, _, _)
AccInt(ds, base, neg, acc) ==
    IF ds = <<>> THEN [ok |-> TRUE, v |-> IntValue(acc)]
    ELSE IF neg
    THEN IF acc < ((INT_MIN + DigitVal(ds[1])) \div base)
                    + (IF (INT_MIN + DigitVal(ds[1])) % base = 0 THEN 0 ELSE 1)
         THEN NumFail
         ELSE AccInt(Tail(ds), base, neg, acc * base - DigitVal(ds[1]))
    ELSE IF acc > (INT_MAX - DigitVal(ds[1])) \div base THEN NumFail
    ELSE AccInt(Tail(ds), base, neg, acc * base + DigitVal(ds[1]))

\* the digits of stoi from p2, the position after the sign and the prefix
StoiDigits(base, neg, run) ==
    IF run = <<>> THEN NumFail ELSE AccInt(StripZeros(run), base, neg, 0)

StoiPrefix(s, base, neg, p2) == StoiDigits(base, neg, SubSeq(s, p2 + 1, DigitsEnd(s, p2, base)))

StoiFrom(s, base, sg) ==
    StoiPrefix(s, base, sg.neg,
               IF /\ base = 16
                  /\ CharAt(s, sg.p1) = "0"
                  /\ CharAt(s, sg.p1 + 1) \in {"x", "X"}
                  /\ DigitVal(CharAt(s, sg.p1 + 2)) < 16
               THEN sg.p1 + 2 ELSE sg.p1)

\* std::stoi(s, nullptr, base): strtol, then a range check against int.  In base
\* 16 a "0x" prefix is skipped when a hex digit follows it
stoi(s, base) == StoiFrom(s, base, SignAt(s, SkipSpace(s, 0)))

\* lower case of an ASCII letter
Lower(c) == IF Ord(c) >= 65 /\ Ord(c) <= 90 THEN Printable[Ord(c) + 32 - 31] ELSE c

\* whether s holds the word w (lower case) at pos, in any case
MatchesAt(s, pos, w) ==
    /\ pos + Len(w) <= Len(s)
    /\ \A i \in 1..Len(w) : Lower(s[pos + i]) = w[i]

DBL_MAX_10_EXP == 308

DBL_MIN_10_EXP == -307

FloatZero == VFloat("fin", FALSE, <<>>, 0)

\* the double of a mantissa `lead` without leading zeros whose last digit has
\* the power of ten ex: r is "ok", "over" or "under" as strtod sets ERANGE
FloatOfStripped(neg, lead, ex) ==
    IF lead = <<>> THEN [r |-> "ok", v |-> FloatZero]
    ELSE IF ex + Len(lead) > DBL_MAX_10_EXP + 1 THEN [r |-> "over", v |-> VNull]
    ELSE IF ex + Len(lead) < DBL_MIN_10_EXP THEN [r |-> "under", v |-> VNull]
    ELSE [r |-> "ok", v |-> VFloat("fin", neg, StripTrailingZeros(lead), ex + Len(lead))]

\* the double of mantissa digits, nfrac of them after the point, and an
\* exponent given by its sign and its digits without leading zeros
DecFloat(neg, mant, nfrac, expNeg, expDs) ==
    IF Len(expDs) > 4
    THEN IF StripZeros(mant) = <<>> THEN [r |-> "ok", v |-> FloatZero]
         ELSE IF expNeg THEN [r |-> "under", v |-> VNull]
         ELSE [r |-> "over", v |-> VNull]
    ELSE FloatOfStripped(neg, StripZeros(mant),
                         (IF expNeg THEN 0 - DecValue(expDs, 0) ELSE DecValue(expDs, 0)) - nfrac)

\* the exponent part at f2: whether an e is there, its sign, where its digits
\* start and end
ExpDigits(s, f2, e1) ==
    [has |-> CharAt(s, f2) \in {"e", "E"},
     neg |-> CharAt(s, f2) \in {"e", "E"} /\ CharAt(s, f2 + 1) = "-",
     e1 |-> e1,
     e2 |-> IF CharAt(s, f2) \in {"e", "E"} THEN DigitsEnd(s, e1, 10) ELSE e1]

ExpAt(s, f2) == ExpDigits(s, f2, IF CharAt(s, f2 + 1) \in {"+", "-"} THEN f2 + 2 ELSE f2 + 1)

\* a decimal number whose integer digits are s[p1..i2): its parts
DecimalExp(s, intDs, hasDot, fracDs, f2, ex) ==
    [intDs |-> intDs, hasDot |-> hasDot, fracDs |-> fracDs, hasE |-> ex.has,
     expNeg |-> ex.neg,
     expDs |-> IF ex.has THEN StripZeros(SubSeq(s, ex.e1 + 1, ex.e2)) ELSE <<>>,
     expEmpty |-> ex.has /\ ex.e2 = ex.e1,
     end |-> IF ex.has THEN ex.e2 ELSE f2]

DecimalFrac(s, intDs, i2, f2) ==
    DecimalExp(s, intDs, CharAt(s, i2) = ".", SubSeq(s, i2 + 2, f2), f2, ExpAt(s, f2))

DecimalAt(s, p1, i2) ==
    DecimalFrac(s, SubSeq(s, p1 + 1, i2), i2,
                IF CharAt(s, i2) = "." THEN DigitsEnd(s, i2 + 1, 10) ELSE i2)

StodFloat(fl) == IF fl.r = "ok" THEN [ok |-> TRUE, v |-> fl.v] ELSE NumFail

StodValue(neg, d) ==
    IF d.intDs = <<>> /\ d.fracDs = <<>> THEN NumFail
    ELSE StodFloat(DecFloat(neg, d.intDs \o d.fracDs, Len(d.fracDs), d.expNeg, d.expDs))

StodFrom(s, sg) ==
    IF MatchesAt(s, sg.p1, <<"i", "n", "f">>)
    THEN [ok |-> TRUE, v |-> VFloat("inf", sg.neg, <<>>, 0)]
    ELSE IF MatchesAt(s, sg.p1, <<"n", "a", "n">>)
    THEN [ok |-> TRUE, v |-> VFloat("nan", FALSE, <<>>, 0)]
    ELSE StodValue(sg.neg, DecimalAt(s, sg.p1, DigitsEnd(s, sg.p1, 10)))

\* std::stod(s): white space, a sign, then "inf"/"infinity"/"nan" in any case or a
\* decimal number with an optional fraction and exponent; what follows is ignored;
\* throws when nothing converts or the value is out of range.  Hexadecimal
\* floating literals are outside the model
stod(s) == StodFrom(s, SignAt(s, SkipSpace(s, 0)))

----------------------------------------------------------------------------
(* json::parse of the JSON library: the JSON grammar over one text.  Results  *)
(* are [ok, v, pos]: whether the text is accepted so far, the value read and  *)
(* the position after it.  Escapes \b, \f and \u are outside the model.       *)

JFail == [ok |-> FALSE, v |-> VNull, pos |-> 0]

JOk(val, pos) == [ok |-> TRUE, v |-> val, pos |-> pos]

UINT64_MAX_DIGITS == <<"1","8","4","4","6","7","4","4","0","7","3","7","0","9","5","5","1","6","1","5">>

\* a JSON string's characters from pos (after the opening quote) up to the closing
\* quote; a control character inside a string is an error
RECURSIVE JsonString(_, _, _)
JsonString(s, pos, acc) ==
    IF pos >= Len(s) THEN JFail
    ELSE IF s[pos + 1] = QUOTE THEN JOk(VStr(acc), pos + 1)
    ELSE IF Ord(s[pos + 1]) < 32 THEN JFail
    ELSE IF s[pos + 1] # BSLASH THEN JsonString(s, pos + 1, Append(acc, s[pos + 1]))
    ELSE IF CharAt(s, pos + 1) \in {QUOTE, BSLASH, "/"}
    THEN JsonString(s, pos + 2, Append(acc, CharAt(s, pos + 1)))
    ELSE IF CharAt(s, pos + 1) = "n" THEN JsonString(s, pos + 2, Append(acc, "\n"))
    ELSE IF CharAt(s, pos + 1) = "t" THEN JsonString(s, pos + 2, Append(acc, "\t"))
    ELSE IF CharAt(s, pos + 1) = "r" THEN JsonString(s, pos + 2, Append(acc, "\r"))
    ELSE JFail

\* a number with a fraction or an exponent: an underflow reads as 0, an overflow
\* is an error
JsonFloat(fl, end) ==
    IF fl.r = "ok" THEN JOk(fl.v, end)
    ELSE IF fl.r = "under" THEN JOk(FloatZero, end)
    ELSE JFail

\* a number without fraction and exponent: a 64-bit signed or unsigned integer,
\* else a double
JsonInteger(neg, ds, end, asInt) ==
    IF asInt.ok THEN JOk(asInt.v, end)
    ELSE IF ~neg /\ DigitsGeq(UINT64_MAX_DIGITS, ds) THEN JOk(VBig(FALSE, ds), end)
    ELSE JsonFloat(DecFloat(neg, ds, 0, FALSE, <<>>), end)

JsonNumValue(neg, d) ==
    IF d.intDs = <<>> THEN JFail
    ELSE IF d.hasDot /\ d.fracDs = <<>> THEN JFail
    ELSE IF d.expEmpty THEN JFail
    ELSE IF ~d.hasDot /\ ~d.hasE
    THEN JsonInteger(neg, StripZeros(d.intDs), d.end, IntOfDigits(neg, d.intDs))
    ELSE JsonFloat(DecFloat(neg, d.intDs \o d.fracDs, Len(d.fracDs), d.expNeg, d.expDs), d.end)

JsonNumAt(s, neg, p1) ==
    JsonNumValue(neg, DecimalAt(s, p1, IF CharAt(s, p1) = "0" THEN p1 + 1
                                       ELSE DigitsEnd(s, p1, 10)))

\* a JSON number at pos: -? (0 | [1-9][0-9]*) (. [0-9]+)? ([eE] [+-]? [0-9]+)?
JsonNumber(s, pos) ==
    JsonNumAt(s, CharAt(s, pos) = "-", IF CharAt(s, pos) = "-" THEN pos + 1 ELSE pos)

RECURSIVE JsonValue(_, _), JsonValueAt(_, _), JsonArrayRest(_, _, _), JsonElement(_, _, _),
          JsonElementEnd(_, _, _), JsonObjectRest(_, _, _), JsonMember(_, _, _),
          JsonMemberKey(_, _, _), JsonMemberColon(_, _, _, _), JsonMemberValue(_, _, _, _),
          JsonMemberEnd(_, _, _)

\* one JSON value at or after pos
JsonValue(s, pos) == JsonValueAt(s, SkipSpace(s, pos))

\* one JSON value at p, where no white space is
JsonValueAt(s, p) ==
    IF p >= Len(s) THEN JFail
    ELSE IF s[p + 1] = "["
    THEN IF CharAt(s, SkipSpace(s, p + 1)) = "]" THEN JOk(EmptyArr, SkipSpace(s, p + 1) + 1)
         ELSE JsonArrayRest(s, p + 1, EmptyArr)
    ELSE IF s[p + 1] = "{"
    THEN IF CharAt(s, SkipSpace(s, p + 1)) = "}" THEN JOk(EmptyObj, SkipSpace(s, p + 1) + 1)
         ELSE JsonObjectRest(s, p + 1, EmptyObj)
    ELSE IF s[p + 1] = QUOTE THEN JsonString(s, p + 1, <<>>)
    ELSE IF s[p + 1] = "t"
    THEN IF SubSeq(s, p + 1, p + 4) = <<"t", "r", "u", "e">> THEN JOk(VBool(TRUE), p + 4)
         ELSE JFail
    ELSE IF s[p + 1] = "f"
    THEN IF SubSeq(s, p + 1, p + 5) = <<"f", "a", "l", "s", "e">> THEN JOk(VBool(FALSE), p + 5)
         ELSE JFail
    ELSE IF s[p + 1] = "n"
    THEN IF SubSeq(s, p + 1, p + 4) = <<"n", "u", "l", "l">> THEN JOk(VNull, p + 4)
         ELSE JFail
    ELSE IF s[p + 1] = "-" \/ s[p + 1] \in Digits THEN JsonNumber(s, p)
    ELSE JFail

\* the elements of an array from pos: an element, then "," or "]"
JsonArrayRest(s, pos, arr) == JsonElement(s, arr, JsonValue(s, pos))

JsonElement(s, arr, e) ==
    IF ~e.ok THEN JFail ELSE JsonElementEnd(s, ArrPush(arr, e.v), SkipSpace(s, e.pos))

JsonElementEnd(s, arr, q) ==
    IF CharAt(s, q) = "," THEN JsonArrayRest(s, q + 1, arr)
    ELSE IF CharAt(s, q) = "]" THEN JOk(arr, q + 1)
    ELSE JFail

\* the members of an object from pos: a string key, ":", a value, then "," or "}";
\* a repeated key keeps the last value
JsonObjectRest(s, pos, obj) == JsonMember(s, obj, SkipSpace(s, pos))

JsonMember(s, obj, p) ==
    IF CharAt(s, p) = QUOTE THEN JsonMemberKey(s, obj, JsonString(s, p + 1, <<>>)) ELSE JFail

JsonMemberKey(s, obj, k) ==
    IF ~k.ok THEN JFail ELSE JsonMemberColon(s, obj, k.v.v, SkipSpace(s, k.pos))

JsonMemberColon(s, obj, key, c) ==
    IF CharAt(s, c) = ":" THEN JsonMemberValue(s, obj, key, JsonValue(s, c + 1)) ELSE JFail

JsonMemberValue(s, obj, key, e) ==
    IF ~e.ok THEN JFail ELSE JsonMemberEnd(s, ObjSet(obj, key, e.v), SkipSpace(s, e.pos))

JsonMemberEnd(s, obj, q) ==
    IF CharAt(s, q) = "," THEN JsonObjectRest(s, q + 1, obj)
    ELSE IF CharAt(s, q) = "}" THEN JOk(obj, q + 1)
    ELSE JFail

JsonEnd(s, r) ==
    IF r.ok /\ SkipSpace(s, r.pos) >= Len(s) THEN [ok |-> TRUE, v |-> r.v] ELSE NumFail

\* json::parse(text): one value and nothing but white space after it; ok = FALSE
\* stands for the parse_error it throws
json_parse(s) == JsonEnd(s, JsonValue(s, 0))

----------------------------------------------------------------------------
(* The Scalar Resolver.  Results are [err, v].                                *)

SOk(val) == [err |-> NoErr, v |-> val]

SFail(e) == [err |-> e, v |-> VNull]

\* the text with leading and trailing spaces and tabs erased
Trim(str) == RTrim(LTrim(str))

\* a trimmed text opens with `open` and ends with `close`
Bracketed(trimmed, open, close) ==
    trimmed # <<>> /\ trimmed[1] = open /\ trimmed[Len(trimmed)] = close

is_json_array(str) == Bracketed(Trim(str), "[", "]")

is_json_object(str) == Bracketed(Trim(str), "{", "}")

starts_with_json_token(str) ==
    LET i == FindFirstNotOf(str, {" ", "\t"})
    IN  i # NPOS /\ CharAt(str, i) \in {"[", "{"}

\* json::parse inside try, catch (json::parse_error): the rethrow as runtime_error
JsonOrThrow(r, message, str) == IF r.ok THEN SOk(r.v) ELSE SFail(Err(message, 0, str))

parse_json_array(str) == JsonOrThrow(json_parse(str), "Invalid JSON array syntax", str)

parse_json_object(str) == JsonOrThrow(json_parse(str), "Invalid JSON object syntax", str)

\* the escape decoding of a quoted scalar, from position i
RECURSIVE Unescape(_, _, _)
Unescape(val, i, result) ==
    IF i >= Len(val) THEN result
    ELSE IF val[i + 1] = BSLASH /\ i + 1 < Len(val)
    THEN Unescape(val, i + 2,
                  Append(result, IF val[i + 2] = "n" THEN "\n"
                                 ELSE IF val[i + 2] = "t" THEN "\t"
                                 ELSE IF val[i + 2] = "r" THEN "\r"
                                 ELSE val[i + 2]))
    ELSE Unescape(val, i + 1, Append(result, val[i + 1]))

\* the numeric attempts of parse_scalar, inside its try block: [ok, v], ok = FALSE
\* when a conversion throws
ScalarNumber(val) ==
    IF Len(val) > 2 /\ val[1] = "0" /\ val[2] \in {"x", "X"} THEN stoi(val, 16)
    ELSE IF Len(val) > 2 /\ val[1] = "0" /\ val[2] \in {"o", "O"} THEN stoi(SubstrFrom(val, 2), 8)
    ELSE IF Len(val) > 2 /\ val[1] = "0" /\ val[2] \in {"b", "B"} THEN stoi(SubstrFrom(val, 2), 2)
    ELSE IF Find(val, ".") # NPOS \/ Find(val, "e") # NPOS \/ Find(val, "E") # NPOS
    THEN stod(val)
    ELSE stoll(val)

NumberOrThrow(val, num) ==
    IF num.ok THEN SOk(num.v) ELSE SFail(Err("invalid_argument", 0, val))

\* the number val reads as, or val itself as a string when the conversion throws
NumberOrString(val, num) == IF num.ok THEN SOk(num.v) ELSE SOk(VStr(val))

ScalarOfTrimmedQuotesKept(val) ==
    IF is_json_array(val) THEN parse_json_array(val)
    ELSE IF is_json_object(val) THEN parse_json_object(val)
    ELSE IF val \in {<<"n","u","l","l">>, <<"~">>, <<"N","u","l","l">>, <<"N","U","L","L">>}
    THEN SOk(VNull)
    ELSE IF val \in {<<"t","r","u","e">>, <<"T","r","u","e">>, <<"T","R","U","E">>}
    THEN SOk(VBool(TRUE))
    ELSE IF val \in {<<"f","a","l","s","e">>, <<"F","a","l","s","e">>, <<"F","A","L","S","E">>}
    THEN SOk(VBool(FALSE))
    ELSE IF val \in {<<".","i","n","f">>, <<".","I","n","f">>, <<".","I","N","F">>,
                     <<"+",".","i","n","f">>}
    THEN SOk(VFloat("inf", FALSE, <<>>, 0))
    ELSE IF val \in {<<"-",".","i","n","f">>, <<"-",".","I","n","f">>, <<"-",".","I","N","F">>}
    THEN SOk(VFloat("inf", TRUE, <<>>, 0))
    ELSE IF val \in {<<".","n","a","n">>, <<".","N","a","N">>, <<".","N","A","N">>}
    THEN SOk(VFloat("nan", FALSE, <<>>, 0))
    ELSE NumberOrString(val, ScalarNumber(val))

\* parse_scalar of a text that is trimmed
ScalarOfTrimmed(val) ==
    IF is_json_array(val) THEN parse_json_array(val)
    ELSE IF is_json_object(val) THEN parse_json_object(val)
    ELSE IF val # <<>> /\ \/ (val[1] = QUOTE /\ val[Len(val)] = QUOTE)
                          \/ (val[1] = APOS /\ val[Len(val)] = APOS)
    THEN SOk(VStr(Unescape(Substr(val, 1, Len(val) - 2), 0, <<>>)))
    ELSE IF val \in {<<"n","u","l","l">>, <<"~">>, <<"N","u","l","l">>, <<"N","U","L","L">>}
    THEN SOk(VNull)
    ELSE IF val \in {<<"t","r","u","e">>, <<"T","r","u","e">>, <<"T","R","U","E">>}
    THEN SOk(VBool(TRUE))
    ELSE IF val \in {<<"f","a","l","s","e">>, <<"F","a","l","s","e">>, <<"F","A","L","S","E">>}
    THEN SOk(VBool(FALSE))
    ELSE IF val \in {<<".","i","n","f">>, <<".","I","n","f">>, <<".","I","N","F">>,
                     <<"+",".","i","n","f">>}
    THEN SOk(VFloat("inf", FALSE, <<>>, 0))
    ELSE IF val \in {<<"-",".","i","n","f">>, <<"-",".","I","n","f">>, <<"-",".","I","N","F">>}
    THEN SOk(VFloat("inf", TRUE, <<>>, 0))
    ELSE IF val \in {<<".","n","a","n">>, <<".","N","a","N">>, <<".","N","A","N">>}
    THEN SOk(VFloat("nan", FALSE, <<>>, 0))
    ELSE NumberOrString(val, ScalarNumber(val))

parse_scalar(value) == ScalarOfTrimmed(Trim(value))

----------------------------------------------------------------------------
(* The parser object and the Indentation Model *)

\* a yaml_parser: its line table, and `oob`, the character a read past the end of
\* a std::string yields (undefined behaviour: any character the build may find)
Parser(lines, oob) == [lines |-> lines, oob |-> oob]

\* line[i] as the parser reads it: defined up to size(), undefined past it
Index(p, line, i) ==
    IF i < Len(line) THEN line[i + 1]
    ELSE IF i = Len(line) THEN NUL
    ELSE p.oob

\* lines[i], 0-based
LineAt(p, i) == p.lines[i + 1]

NumLines(p) == Len(p.lines)

RECURSIVE IndentFrom(_, _, _)
IndentFrom(line, i, indent) ==
    IF i >= Len(line) THEN indent
    ELSE IF line[i + 1] = " " THEN IndentFrom(line, i + 1, indent + 1)
    ELSE IF line[i + 1] = "\t" THEN IndentFrom(line, i + 1, indent + 2)
    ELSE indent

get_indent(line) == IndentFrom(line, 0, 0)

RECURSIVE get_next_sub_indent(_, _, _)
get_next_sub_indent(p, start_line, parent_indent) ==
    IF start_line >= NumLines(p) THEN -1
    ELSE IF LineAt(p, start_line) = <<>> THEN get_next_sub_indent(p, start_line + 1, parent_indent)
    ELSE IF get_indent(LineAt(p, start_line)) > parent_indent
    THEN get_indent(LineAt(p, start_line))
    ELSE -1

----------------------------------------------------------------------------
(* Results of the cursor-moving functions, and the event log *)

\* an event: what happened, in which function, the cursor after it, and the
\* expected indentation of the call it happened in
Ev(e, f, c, n) == [e |-> e, f |-> f, c |-> c, n |-> n]

ROk(val, cur, log) == [v |-> val, cur |-> cur, err |-> NoErr, log |-> log]

RFail(e, cur, log) == [v |-> VNull, cur |-> cur, err |-> e, log |-> log]

Failed(r) == r.err.k # "none"

\* std::out_of_range of std::string::substr
OutOfRange == Err("out_of_range", 0, <<>>)

----------------------------------------------------------------------------
(* The Embedded-JSON Detector *)

ScanInit ==
    [curly |-> 0, square |-> 0, in_string |-> FALSE, quote_char |-> NUL, escape |-> FALSE]

ScanCharQuotesCounted(c, sc) ==
    IF c = "{" THEN [sc EXCEPT !.curly = @ + 1]
    ELSE IF c = "}" THEN [sc EXCEPT !.curly = @ - 1]
    ELSE IF c = "[" THEN [sc EXCEPT !.square = @ + 1]
    ELSE IF c = "]" THEN [sc EXCEPT !.square = @ - 1]
    ELSE sc

\* the bracket and brace counting over one character
ScanChar(c, sc) ==
    IF sc.in_string
    THEN IF sc.escape THEN [sc EXCEPT !.escape = FALSE]
         ELSE IF c = BSLASH THEN [sc EXCEPT !.escape = TRUE]
         ELSE IF c = sc.quote_char THEN [sc EXCEPT !.in_string = FALSE]
         ELSE sc
    ELSE IF c = QUOTE \/ c = APOS THEN [sc EXCEPT !.in_string = TRUE, !.quote_char = c]
    ELSE IF c = "{" THEN [sc EXCEPT !.curly = @ + 1]
    ELSE IF c = "}" THEN [sc EXCEPT !.curly = @ - 1]
    ELSE IF c = "[" THEN [sc EXCEPT !.square = @ + 1]
    ELSE IF c = "]" THEN [sc EXCEPT !.square = @ - 1]
    ELSE sc

\* the bracket and brace counting over one line's content
RECURSIVE ScanContent(_, _)
ScanContent(content, sc) ==
    IF content = <<>> THEN sc ELSE ScanContent(Tail(content), ScanChar(content[1], sc))

\* the result of try_collect_json_block: ok is its return value, text is out_json
TOk(text, cur, log) == [ok |-> TRUE, text |-> text, cur |-> cur, err |-> NoErr, log |-> log]

TNo(cur, log) == [ok |-> FALSE, text |-> <<>>, cur |-> cur, err |-> NoErr, log |-> log]

TThrow(e, cur, log) == [ok |-> FALSE, text |-> <<>>, cur |-> cur, err |-> e, log |-> log]

CollectRestoreAhead(saved_line, current_indent, log) ==
    TNo(saved_line + 1,
        Append(log, Ev("restore", "try_collect_json_block", saved_line + 1, current_indent)))

\* no complete JSON block: current_line = saved_line, return false
CollectRestore(saved_line, current_indent, log) ==
    TNo(saved_line, Append(log, Ev("restore", "try_collect_json_block", saved_line, current_indent)))

RECURSIVE CollectLoop(_, _, _, _, _, _, _, _), CollectLine(_, _, _, _, _, _, _, _, _, _),
          CollectContent(_, _, _, _, _, _, _, _, _), CollectScanned(_, _, _, _, _, _, _)

\* the while loop of try_collect_json_block at line index i
CollectLoop(p, saved_line, current_indent, i, started, sc, buffer, log) ==
    IF i >= NumLines(p) THEN CollectRestore(saved_line, current_indent, log)
    ELSE IF ~started /\ LineAt(p, i) = <<>>
    THEN CollectLoop(p, saved_line, current_indent, i + 1, started, sc, buffer, log)
    ELSE CollectLine(p, saved_line, current_indent, i, started, sc, buffer, log,
                     LineAt(p, i), get_indent(LineAt(p, i)))

\* the line raw = lines[i] with its indentation
CollectLine(p, saved_line, current_indent, i, started, sc, buffer, log, raw, indent) ==
    IF ~started /\ indent # current_indent THEN CollectRestore(saved_line, current_indent, log)
    ELSE IF started /\ indent < current_indent
    THEN CollectRestore(saved_line, current_indent, log)
    ELSE IF indent > Len(raw) THEN TThrow(OutOfRange, saved_line, log)
    ELSE CollectContent(p, saved_line, current_indent, i, started, sc, buffer, log,
                        SubstrFrom(raw, indent))

\* content = raw.substr(indent)
CollectContent(p, saved_line, current_indent, i, started, sc, buffer, log, content) ==
    IF ~started /\ FindFirstNotOf(content, {" ", "\t"}) = NPOS
    THEN CollectLoop(p, saved_line, current_indent, i + 1, started, sc, buffer, log)
    ELSE IF ~started /\ CharAt(content, FindFirstNotOf(content, {" ", "\t"})) \notin {"{", "["}
    THEN CollectRestore(saved_line, current_indent, log)
    ELSE CollectScanned(p, saved_line, current_indent, i + 1, ScanContent(content, sc),
                        IF buffer # <<>> THEN buffer \o <<"\n">> \o content ELSE content, log)

\* the line was appended and scanned; i is the index after it
CollectScanned(p, saved_line, current_indent, i, sc, buffer, log) ==
    IF sc.curly <= 0 /\ sc.square <= 0
    THEN TOk(buffer, i, Append(log, Ev("commit", "try_collect_json_block", i, current_indent)))
    ELSE CollectLoop(p, saved_line, current_indent, i, TRUE, sc, buffer, log)

try_collect_json_block(p, cur, current_indent, log) ==
    CollectLoop(p, cur, current_indent, cur, FALSE, ScanInit, <<>>, log)

----------------------------------------------------------------------------

----------------------------------------------------------------------------
(* The Structural Parser.  Every function takes the parser p, the cursor cur  *)
(* (current_line) and the log, and yields [v, cur, err, log].                 *)

RECURSIVE parse_value(_, _, _, _), parse_sequence(_, _, _, _), parse_mapping(_, _, _, _),
          NestedBlock(_, _, _, _, _, _), NestedAt(_, _, _, _, _, _), EntryValue(_, _, _, _, _, _),
          ValueLoop(_, _, _, _), ValueLine(_, _, _, _, _, _), ValueShape(_, _, _, _, _, _),
          MappingLoop(_, _, _, _, _), MappingLine(_, _, _, _, _, _, _, _),
          MappingStore(_, _, _, _, _),
          SequenceLoop(_, _, _, _, _), SequenceLine(_, _, _, _, _, _, _),
          SequencePush(_, _, _, _), SequenceItem(_, _, _, _, _),
          InlineSequence(_, _, _, _, _), ContSeqLoop(_, _, _, _, _, _),
          ContSeqLine(_, _, _, _, _, _, _, _), ContSeqPush(_, _, _, _, _, _, _),
          InlineMapping(_, _, _, _), ContMapLoop(_, _, _, _, _, _),
          ContMapLine(_, _, _, _, _, _, _, _, _), ContMapStore(_, _, _, _, _, _)

\* the normal return of function f, called with indentation n, logged
Returned(r, f, n) ==
    IF Failed(r) THEN r ELSE [r EXCEPT !.log = Append(@, Ev("ret", f, r.cur, n))]

\* current_line++ in function f, called with indentation n: the log after it
Inc(log, f, cur, n) == Append(log, Ev("inc", f, cur + 1, n))

\* line.substr(line_indent, colon_pos - line_indent), trailing blanks erased
KeyText(line, line_indent, colon_pos) ==
    RTrim(Substr(line, line_indent, colon_pos - line_indent))

\* line.substr(colon_pos + 1), leading blanks erased
ValueText(line, colon_pos) == LTrim(SubstrFrom(line, colon_pos + 1))

\* a value parse_scalar resolved, or the exception it threw, with the cursor at cur
Scalar(sc, cur, log) == IF Failed(sc) THEN RFail(sc.err, cur, log) ELSE ROk(sc.v, cur, log)

\* json parse_value(current_indent)
parse_value(p, cur, current_indent, log) ==
    Returned(ValueLoop(p, cur, current_indent,
                       Append(log, Ev("call", "parse_value", cur, current_indent))),
             "parse_value", current_indent)

\* json parse_sequence(current_indent)
parse_sequence(p, cur, current_indent, log) ==
    Returned(SequenceLoop(p, cur, current_indent, EmptyArr,
                          Append(log, Ev("call", "parse_sequence", cur, current_indent))),
             "parse_sequence", current_indent)

\* json parse_mapping(current_indent)
parse_mapping(p, cur, current_indent, log) ==
    Returned(MappingLoop(p, cur, current_indent, EmptyObj,
                         Append(log, Ev("call", "parse_mapping", cur, current_indent))),
             "parse_mapping", current_indent)

\* the block parse_value returned for a key or a dash: null is an error
NestedValue(what, key, sub) ==
    IF Failed(sub) THEN sub
    ELSE IF sub.v = VNull
    THEN RFail(Err("Failed to parse block for " \o what, sub.cur - 1, key), sub.cur, sub.log)
    ELSE sub

NestedAtLenient(p, cur, what, key, log, sub_indent) ==
    IF sub_indent = -1
    THEN ROk(VNull, cur, log)
    ELSE NestedValue(what, key, parse_value(p, cur, sub_indent, log))

NestedAtDeeper(p, cur, what, key, log, sub_indent) ==
    IF sub_indent = -1
    THEN RFail(Err("Expected indented block for " \o what, cur - 1, key), cur, log)
    ELSE NestedValue(what, key, parse_value(p, cur, sub_indent + 1, log))

NestedAt(p, cur, what, key, log, sub_indent) ==
    IF sub_indent = -1
    THEN RFail(Err("Expected indented block for " \o what, cur - 1, key), cur, log)
    ELSE NestedValue(what, key, parse_value(p, cur, sub_indent, log))

\* the value of a key or dash with an empty inline value: the block found by
\* get_next_sub_indent below `parent_indent`, parsed by parse_value.  `cur` is the
\* cursor after the key's line; `what` and `key` go into the error message
NestedBlock(p, cur, parent_indent, what, key, log) ==
    NestedAt(p, cur, what, key, log, get_next_sub_indent(p, cur, parent_indent))

\* the value of the entry `key: val`, with the cursor after the key's line: the
\* nested block when val is empty, else parse_scalar(val)
EntryValue(p, cur, parent_indent, key, val, log) ==
    IF val = <<>> THEN NestedBlock(p, cur, parent_indent, "key", key, log)
    ELSE Scalar(parse_scalar(val), cur, log)

\* what parse_value's JSON attempt comes to: done with the result r, or not done
\* with the log r.log to go on with
JsonParsedKeep(cur, current_indent, tc, jp) ==
    IF jp.ok THEN [done |-> TRUE, r |-> ROk(jp.v, tc.cur, tc.log)]
    ELSE [done |-> FALSE,
          r |-> ROk(VNull, tc.cur, Append(tc.log, Ev("revert", "parse_value", tc.cur, current_indent)))]

JsonParsedBack(cur, current_indent, tc, jp) ==
    IF jp.ok THEN [done |-> TRUE, r |-> ROk(jp.v, tc.cur, tc.log)]
    ELSE [done |-> FALSE,
          r |-> ROk(VNull, cur - 1, Append(tc.log, Ev("revert", "parse_value", cur - 1, current_indent)))]

JsonParsed(cur, current_indent, tc, jp) ==
    IF jp.ok THEN [done |-> TRUE, r |-> ROk(jp.v, tc.cur, tc.log)]
    ELSE [done |-> FALSE,
          r |-> ROk(VNull, cur, Append(tc.log, Ev("revert", "parse_value", cur, current_indent)))]

JsonCollected(cur, current_indent, tc) ==
    IF Failed(tc) THEN [done |-> TRUE, r |-> RFail(tc.err, cur, tc.log)]
    ELSE IF ~tc.ok THEN [done |-> FALSE, r |-> ROk(VNull, cur, tc.log)]
    ELSE JsonParsed(cur, current_indent, tc, json_parse(tc.text))

JsonAttempt(p, cur, current_indent, log, at_level) ==
    IF ~starts_with_json_token(at_level) THEN [done |-> FALSE, r |-> ROk(VNull, cur, log)]
    ELSE JsonCollected(cur, current_indent, try_collect_json_block(p, cur, current_indent, log))

\* the while loop of parse_value
ValueLoop(p, cur, current_indent, log) ==
    IF cur >= NumLines(p)
    THEN ROk(VNull, cur, Append(log, Ev("pv_eof", "parse_value", cur, current_indent)))
    ELSE IF LineAt(p, cur) = <<>>
    THEN ValueLoop(p, cur + 1, current_indent, Inc(log, "parse_value", cur, current_indent))
    ELSE ValueLine(p, cur, current_indent, log, LineAt(p, cur), get_indent(LineAt(p, cur)))

ValueLine(p, cur, current_indent, log, line, line_indent) ==
    IF line_indent < current_indent
    THEN ROk(VNull, cur, Append(log, Ev("pv_shallow", "parse_value", cur, current_indent)))
    ELSE IF line_indent # current_indent
    THEN ValueLoop(p, cur + 1, current_indent,
                   Append(log, Ev("pv_deeper", "parse_value", cur + 1, current_indent)))
    ELSE IF line_indent > Len(line) THEN RFail(OutOfRange, cur, log)
    ELSE ValueShape(p, cur, current_indent, line, line_indent,
                    JsonAttempt(p, cur, current_indent, log, SubstrFrom(line, line_indent)))

\* the line is at the level: the JSON attempt ja, then a sequence, a mapping or
\* a scalar, decided on `line` and read from the cursor the attempt left
ValueShape(p, cur, current_indent, line, line_indent, ja) ==
    IF ja.done THEN ja.r
    ELSE IF Index(p, line, line_indent) = "-"
    THEN parse_sequence(p, ja.r.cur, current_indent, ja.r.log)
    ELSE IF Find(line, ":") # NPOS THEN parse_mapping(p, ja.r.cur, current_indent, ja.r.log)
    ELSE Scalar(parse_scalar(SubstrFrom(line, line_indent)), ja.r.cur + 1,
                Inc(ja.r.log, "parse_value", ja.r.cur, current_indent))

\* the while loop of parse_mapping
MappingLoop(p, cur, current_indent, object, log) ==
    IF cur >= NumLines(p) THEN ROk(object, cur, log)
    ELSE IF LineAt(p, cur) = <<>>
    THEN MappingLoop(p, cur + 1, current_indent, object,
                     Inc(log, "parse_mapping", cur, current_indent))
    ELSE MappingLine(p, cur, current_indent, object, log, LineAt(p, cur),
                     get_indent(LineAt(p, cur)), Find(LineAt(p, cur), ":"))

MappingLineAnyIndent(p, cur, current_indent, object, log, line, line_indent, colon_pos) ==
    IF colon_pos = NPOS THEN ROk(object, cur, log)
    ELSE IF line_indent > Len(line)
    THEN RFail(OutOfRange, cur + 1, Inc(log, "parse_mapping", cur, current_indent))
    ELSE MappingStore(p, current_indent, object, KeyText(line, line_indent, colon_pos),
                      EntryValue(p, cur + 1, current_indent,
                                 KeyText(line, line_indent, colon_pos),
                                 ValueText(line, colon_pos),
                                 Inc(log, "parse_mapping", cur, current_indent)))

MappingLine(p, cur, current_indent, object, log, line, line_indent, colon_pos) ==
    IF line_indent # current_indent THEN ROk(object, cur, log)
    ELSE IF colon_pos = NPOS THEN ROk(object, cur, log)
    ELSE IF line_indent > Len(line)
    THEN RFail(OutOfRange, cur + 1, Inc(log, "parse_mapping", cur, current_indent))
    ELSE MappingStore(p, current_indent, object, KeyText(line, line_indent, colon_pos),
                      EntryValue(p, cur + 1, current_indent,
                                 KeyText(line, line_indent, colon_pos),
                                 ValueText(line, colon_pos),
                                 Inc(log, "parse_mapping", cur, current_indent)))

\* object[key] = sub
MappingStore(p, current_indent, object, key, sub) ==
    IF Failed(sub) THEN sub
    ELSE MappingLoop(p, sub.cur, current_indent, ObjSet(object, key, sub.v), sub.log)

\* the items of an inline multi-dash sequence `- a - b`: [err, v]
RECURSIVE SplitDashes(_, _), SplitItem(_, _, _), SplitPush(_, _, _), SplitStore(_, _, _)

\* the while loop over `remaining`
SplitDashes(remaining, nested_array) ==
    IF remaining = <<>> \/ remaining[1] # "-" THEN SOk(nested_array)
    ELSE SplitItem(LTrim(SubstrFrom(remaining, 1)), FindSpDashFrom(LTrim(SubstrFrom(remaining, 1)), 0),
                   nested_array)

\* remaining after its dash and blanks, and next_dash = remaining.find(" -")
SplitItem(remaining, next_dash, nested_array) ==
    IF next_dash # NPOS
    THEN SplitPush(Substr(remaining, 0, next_dash), LTrim(SubstrFrom(remaining, next_dash + 1)),
                   nested_array)
    ELSE SplitPush(remaining, <<>>, nested_array)

SplitPush(item_value, remaining, nested_array) ==
    IF item_value = <<>> THEN SplitDashes(remaining, nested_array)
    ELSE SplitStore(remaining, nested_array, parse_scalar(item_value))

SplitStore(remaining, nested_array, sc) ==
    IF Failed(sc) THEN sc ELSE SplitDashes(remaining, ArrPush(nested_array, sc.v))

\* an inline nested sequence that folds no continuation line: the variant of
\* ContSeqLoop the continuation property must tell apart
ContSeqNone(p, cur, current_indent, sub_indent, nested_array, log) ==
    ROk(nested_array, cur, log)

\* the continuation lines of an inline multi-dash sequence item
ContSeqLoop(p, cur, current_indent, sub_indent, nested_array, log) ==
    IF cur >= NumLines(p) THEN ROk(nested_array, cur, log)
    ELSE IF LineAt(p, cur) = <<>>
    THEN ContSeqLoop(p, cur + 1, current_indent, sub_indent, nested_array,
                     Inc(log, "parse_sequence", cur, current_indent))
    ELSE ContSeqLine(p, cur, current_indent, sub_indent, nested_array, log,
                     LineAt(p, cur), get_indent(LineAt(p, cur)))

ContSeqLineLenient(p, cur, current_indent, sub_indent, nested_array, log, next_line, next_indent) ==
    IF next_indent <= current_indent THEN ROk(nested_array, cur, log)
    ELSE IF Index(p, next_line, next_indent) # "-" THEN ROk(nested_array, cur, log)
    ELSE IF sub_indent # -1 /\ next_indent # sub_indent THEN ROk(nested_array, cur, log)
    ELSE IF next_indent + 1 > Len(next_line)
    THEN RFail(OutOfRange, cur + 1, Inc(log, "parse_sequence", cur, current_indent))
    ELSE ContSeqPush(p, cur + 1, current_indent, next_indent, nested_array,
                     Inc(log, "parse_sequence", cur, current_indent),
                     parse_scalar(LTrim(SubstrFrom(next_line, next_indent + 1))))

ContSeqLine(p, cur, current_indent, sub_indent, nested_array, log, next_line, next_indent) ==
    IF next_indent <= current_indent THEN ROk(nested_array, cur, log)
    ELSE IF Index(p, next_line, next_indent) # "-" THEN ROk(nested_array, cur, log)
    ELSE IF sub_indent # -1 /\ next_indent # sub_indent
    THEN RFail(Err("Inconsistent indentation in nested sequence continuation", cur, <<>>),
               cur, log)
    ELSE IF next_indent + 1 > Len(next_line)
    THEN RFail(OutOfRange, cur + 1, Inc(log, "parse_sequence", cur, current_indent))
    ELSE ContSeqPush(p, cur + 1, current_indent, next_indent, nested_array,
                     Inc(log, "parse_sequence", cur, current_indent),
                     parse_scalar(LTrim(SubstrFrom(next_line, next_indent + 1))))

\* nested_array.push_back(parse_scalar(next_value))
ContSeqPush(p, cur, current_indent, sub_indent, nested_array, log, sc) ==
    IF Failed(sc) THEN RFail(sc.err, cur, log)
    ELSE ContSeqLoop(p, cur, current_indent, sub_indent, ArrPush(nested_array, sc.v), log)

\* the item `- - a - b`: the items of its line, then its continuation lines
InlineSequence(p, cur, current_indent, log, split) ==
    IF Failed(split) THEN RFail(split.err, cur, log)
    ELSE ContSeqLoop(p, cur, current_indent, -1, split.v, log)

\* the additional key-value lines of an inline mapping of a sequence item
ContMapLoop(p, cur, current_indent, key_indent, obj, log) ==
    IF cur >= NumLines(p) THEN ROk(obj, cur, log)
    ELSE IF LineAt(p, cur) = <<>>
    THEN ContMapLoop(p, cur + 1, current_indent, key_indent, obj,
                     Inc(log, "parse_sequence", cur, current_indent))
    ELSE ContMapLine(p, cur, current_indent, key_indent, obj, log, LineAt(p, cur),
                     get_indent(LineAt(p, cur)), Find(LineAt(p, cur), ":"))

ContMapLine(p, cur, current_indent, key_indent, obj, log, next_line, next_indent, next_colon_pos) ==
    IF next_indent <= current_indent THEN ROk(obj, cur, log)
    ELSE IF next_colon_pos = NPOS THEN ROk(obj, cur, log)
    ELSE IF key_indent # -1 /\ next_indent # key_indent THEN ROk(obj, cur, log)
    ELSE IF next_indent > Len(next_line)
    THEN RFail(OutOfRange, cur + 1, Inc(log, "parse_sequence", cur, current_indent))
    ELSE ContMapStore(p, current_indent, next_indent, obj,
                      KeyText(next_line, next_indent, next_colon_pos),
                      EntryValue(p, cur + 1, next_indent,
                                 KeyText(next_line, next_indent, next_colon_pos),
                                 ValueText(next_line, next_colon_pos),
                                 Inc(log, "parse_sequence", cur, current_indent)))

\* obj[next_key] = next_sub
ContMapStore(p, current_indent, key_indent, obj, next_key, next_sub) ==
    IF Failed(next_sub) THEN next_sub
    ELSE ContMapLoop(p, next_sub.cur, current_indent, key_indent,
                     ObjSet(obj, next_key, next_sub.v), next_sub.log)

\* an inline mapping that loses the text of its first key: the variant of
\* InlineMapping the mapping-in-sequence property must tell apart
InlineMappingKeyless(p, current_indent, key, first) ==
    IF Failed(first) THEN first
    ELSE ContMapLoop(p, first.cur, current_indent, -1, ObjSet(EmptyObj, <<>>, first.v),
                     first.log)

\* the item `- key: val`: obj[key] = first, then the additional key-value lines
InlineMapping(p, current_indent, key, first) ==
    IF Failed(first) THEN first
    ELSE ContMapLoop(p, first.cur, current_indent, -1, ObjSet(EmptyObj, key, first.v),
                     first.log)

\* the item whose text after the dash is `value`, with the cursor after its line
SequenceItem(p, cur, current_indent, log, value) ==
    IF value = <<>> THEN NestedBlock(p, cur, current_indent, "sequence item", <<>>, log)
    ELSE IF value[1] = "-"
    THEN InlineSequence(p, cur, current_indent, log, SplitDashes(value, EmptyArr))
    ELSE IF Find(value, ":") # NPOS
    THEN InlineMapping(p, current_indent, RTrim(Substr(value, 0, Find(value, ":"))),
                       EntryValue(p, cur, current_indent,
                                  RTrim(Substr(value, 0, Find(value, ":"))),
                                  ValueText(value, Find(value, ":")), log))
    ELSE Scalar(parse_scalar(value), cur, log)

\* a parse_sequence that puts the item in front: the variant of SequencePush the
\* file-order property must tell apart
SequencePushFront(p, current_indent, array, item) ==
    IF Failed(item) THEN item
    ELSE SequenceLoop(p, item.cur, current_indent, VArr(<<item.v>> \o array.v), item.log)

\* array.push_back(item)
SequencePush(p, current_indent, array, item) ==
    IF Failed(item) THEN item
    ELSE SequenceLoop(p, item.cur, current_indent, ArrPush(array, item.v), item.log)

\* the while loop of parse_sequence
SequenceLoop(p, cur, current_indent, array, log) ==
    IF cur >= NumLines(p) THEN ROk(array, cur, log)
    ELSE IF LineAt(p, cur) = <<>>
    THEN SequenceLoop(p, cur + 1, current_indent, array,
                      Inc(log, "parse_sequence", cur, current_indent))
    ELSE SequenceLine(p, cur, current_indent, array, log, LineAt(p, cur),
                      get_indent(LineAt(p, cur)))

SequenceLine(p, cur, current_indent, array, log, line, line_indent) ==
    IF line_indent # current_indent THEN ROk(array, cur, log)
    ELSE IF Index(p, line, line_indent) # "-" THEN ROk(array, cur, log)
    ELSE IF line_indent + 1 > Len(line)
    THEN RFail(OutOfRange, cur + 1, Inc(log, "parse_sequence", cur, current_indent))
    ELSE SequencePush(p, current_indent, array,
                      SequenceItem(p, cur + 1, current_indent,
                                   Inc(log, "parse_sequence", cur, current_indent),
                                   LTrim(SubstrFrom(line, line_indent + 1))))

----------------------------------------------------------------------------
(* The Preprocessor *)

\* one physical line: cut at the first '#', trailing white space erased
PreprocessLineTrimFirst(line) ==
    LET last == FindLastNotOf(line, {" ", "\t", "\r", "\n"})
        trimmed == SubSeq(line, 1, last + 1)
        comment_pos == Find(trimmed, "#")
    IN  IF comment_pos # NPOS THEN Substr(trimmed, 0, comment_pos) ELSE trimmed

PreprocessLine(line) ==
    LET comment_pos == Find(line, "#")
        cut == IF comment_pos # NPOS THEN Substr(line, 0, comment_pos) ELSE line
        last == FindLastNotOf(cut, {" ", "\t", "\r", "\n"})
    IN  SubSeq(cut, 1, last + 1)

\* the line table of an input given as its physical lines (std::getline)
preprocess_input(input) == [i \in 1..Len(input) |-> PreprocessLine(input[i])]

----------------------------------------------------------------------------
(* parse(): the document root *)

RootState(pc, cur, root, result, error, log) ==
    [pc |-> pc, cur |-> cur, root |-> root, result |-> result, error |-> error, log |-> log]

RootThrow(e, cur, root, log) == RootState("error", cur, root, VNull, e, log)

RootSkipStuck(cur, root, log) ==
    RootState("loop", cur, root, VNull, NoErr, Append(log, Ev("inc", "parse", cur, 0)))

\* a line that is empty or holds no colon: current_line++, continue
RootSkip(cur, root, log) == RootState("loop", cur + 1, root, VNull, NoErr, Inc(log, "parse", cur, 0))

\* return parse_sequence(0)
RootSeqUnwrapped(root, seq) ==
    IF Failed(seq) THEN RootThrow(seq.err, seq.cur, root, seq.log)
    ELSE RootState("done", seq.cur, root,
                   IF Len(seq.v.v) = 1 THEN seq.v.v[1] ELSE seq.v, NoErr, seq.log)

RootSeq(root, seq) ==
    IF Failed(seq) THEN RootThrow(seq.err, seq.cur, root, seq.log)
    ELSE RootState("done", seq.cur, root, seq.v, NoErr, seq.log)

\* a parse() that returns the sequence although root holds entries: the variant
\* of RootMix the root-mixing property must tell apart
RootMixMerged(p, cur, root, log) == RootSeq(root, parse_sequence(p, cur, 0, log))

\* a column-0 dash met when root already holds an entry: the throw
RootMix(p, cur, root, log) ==
    RootThrow(Err("Cannot mix sequences and mappings at root level", 0, <<>>), cur, root, log)

\* a parse() that drops the entry instead of storing it: the variant of RootStore
\* the root-mapping property must tell apart
RootStoreDropped(root, key, sub) ==
    IF Failed(sub) THEN RootThrow(sub.err, sub.cur, root, sub.log)
    ELSE RootState("loop", sub.cur, root, VNull, NoErr, sub.log)

\* root[key] = sub
RootStore(root, key, sub) ==
    IF Failed(sub) THEN RootThrow(sub.err, sub.cur, root, sub.log)
    ELSE RootState("loop", sub.cur, ObjSet(root, key, sub.v), VNull, NoErr, sub.log)

\* a line with a colon: the key is extracted and sub, the value of the entry,
\* is stored under it
RootEntry(cur, root, log, line, sub) ==
    IF get_indent(line) > Len(line) THEN RootThrow(OutOfRange, cur, root, log)
    ELSE RootStore(root, KeyText(line, get_indent(line), Find(line, ":")), sub)

\* one iteration of the while loop of parse() at the non-empty line `line`
RootLine(p, cur, root, log, line) ==
    IF line[1] = "-"
    THEN IF root = EmptyObj THEN RootSeq(root, parse_sequence(p, cur, 0, log))
         ELSE RootMix(p, cur, root, log)
    ELSE IF Find(line, ":") = NPOS THEN RootSkip(cur, root, log)
    ELSE RootEntry(cur, root, log, line,
                   EntryValue(p, cur + 1, get_indent(line),
                              KeyText(line, get_indent(line), Find(line, ":")),
                              ValueText(line, Find(line, ":")), Inc(log, "parse", cur, 0)))

\* one iteration of the while loop of parse(), entered with current_line = cur
RootIter(p, cur, root, log) ==
    IF LineAt(p, cur) = <<>> THEN RootSkip(cur, root, log)
    ELSE RootLine(p, cur, root, log, LineAt(p, cur))

\* the while loop of parse() run to its end
RECURSIVE RootLoop(_, _)
RootLoop(p, st) ==
    IF st.pc # "loop" THEN st
    ELSE IF st.cur >= NumLines(p)
    THEN RootState("done", st.cur, st.root, st.root, NoErr, st.log)
    ELSE RootLoop(p, RootIter(p, st.cur, st.root, st.log))

\* json parse(): root = json::object(), current_line = 0, then the loop
parse(p) == RootLoop(p, RootState("loop", 0, EmptyObj, VNull, NoErr, <<>>))

\* parse_yaml(input) of an input given as its physical lines
parse_yaml(input, oobc) == parse(Parser(preprocess_input(input), oobc))

----------------------------------------------------------------------------
(* The documents the parser is run on *)

\* the longest document of `key: value` lines
MaxKV == 3

\* the most root-level blocks in a mixed document
MaxEntries == 2

\* the most items in a sequence document
MaxItems == 3

\* the most elements in a list written as a JSON literal and as a block sequence
MaxElems == 2

\* the non-empty sequences over S of at most n elements
SeqsUpTo(S, n) == UNION {[1..k -> S] : k \in 1..n}

\* the lines of a sequence of blocks, one after the other
RECURSIVE Flatten(_)
Flatten(blocks) == IF blocks = <<>> THEN <<>> ELSE blocks[1] \o Flatten(Tail(blocks))

Spaces(n) == [i \in 1..n |-> " "]

\* a block moved n columns to the right
Indented(block, n) == [i \in 1..Len(block) |-> Spaces(n) \o block[i]]

\* `key: value` lines at column 0
KVLines ==
    { <<"a","g","e",":"," ","2","5">>,
      <<"a","c","t","i","v","e",":"," ","t","r","u","e">>,
      <<"n","a","m","e",":"," ","t","e","s","t","_","u","s","e","r">>,
      <<"b",":"," ","1">>,
      <<"a",":"," ","2">>,
      <<"a",":"," ","[","x","]">> }

KVDocs == SeqsUpTo(KVLines, MaxKV)

\* blocks of lines that start at column 0
RootBlocks ==
    { <<<<"k","e","y",":"," ","v","a","l","u","e">>>>,
      <<<<"-"," ","i","t","e","m","1">>>>,
      <<<<>>>>,
      <<<<"s","t","r","a","y">>>>,
      <<<<"t","a","b","_","i","n","d","e","n","t",":">>, <<"\t","k","e","y",":"," ","v","a","l","u","e">>>>,
      <<<<"t","a","b","_","i","n","d","e","n","t",":">>, <<" "," ","k","e","y",":"," ","v","a","l","u","e">>>>,
      <<<<"m",":">>, <<" "," ","b",":"," ","1">>, <<" "," ","a",":"," ","2">>>>,
      <<<<"k",":">>, <<" "," ","-"," ","1">>, <<" "," ","-"," ","2">>>>,
      <<<<"e",":">>>>,
      <<<<"n",":">>, <<" "," ","n","u","l","l">>>>,
      <<<<"k",":">>, <<" "," "," "," ","-"," ","a">>, <<"\t","\t","b">>>>,
      <<<<"c",":"," ","3"," ","#"," ","n","o","t","e">>>> }

RootDocs == {Flatten(bs) : bs \in SeqsUpTo(RootBlocks, MaxEntries)}

\* sequence items with the lines that belong to them
ItemBlocks ==
    { <<<<"-"," ","i","t","e","m","1">>>>,
      <<<<"-"," ","2">>>>,
      <<<<"-"," ","t","r","u","e">>>>,
      <<<<"-"," ","-"," ","s","1">>, <<" "," ","-"," ","s","2">>>>,
      <<<<"-"," ","-"," ","4">>, <<" "," ","-"," ","5",".","5">>>>,
      <<<<"-"," ","m","a","p","1",":">>, <<" "," "," "," ","a",":"," ","1">>, <<" "," "," "," ","b",":"," ","2">>>>,
      <<<<"-"," ","m","a","p","2",":">>, <<" "," ","c",":"," ","3">>>>,
      <<<<"-"," ","b",":"," ","1">>, <<" "," ","a",":"," ","2">>>>,
      <<<<"-"," ","{","\"","a","\"",":"," ","1","}">>>>,
      <<<<"-"," ","[","1",","," ","2","]">>>> }

\* the line `k:` that opens a nested block
KeyLine == <<"k",":">>

\* sequences at the root, and the same sequences nested under the key `k`
SeqDocs ==
    {Flatten(bs) : bs \in SeqsUpTo(ItemBlocks, MaxItems)}
        \cup {<<KeyLine>> \o Indented(Flatten(bs), 2) : bs \in SeqsUpTo(ItemBlocks, MaxItems)}

\* scalars as they are written in a list
Elems ==
    { <<"1">>,
      <<"-","5">>,
      <<"\"","t","h","r","e","e","\"">>,
      <<"\"","a",":","b","\"">>,
      <<"t","r","u","e">>,
      <<"f","a","l","s","e">>,
      <<"n","u","l","l">> }

ElemLists == SeqsUpTo(Elems, MaxElems)

\* e1, ..., en
RECURSIVE CommaJoin(_)
CommaJoin(es) ==
    IF Len(es) = 1 THEN es[1] ELSE es[1] \o <<",", " ">> \o CommaJoin(Tail(es))

\* k: [e1, ..., en]
InlineListDoc(es) == <<KeyLine \o <<" ", "[">> \o CommaJoin(es) \o <<"]">>>>

\* k: and, on the next line at indentation 2, [e1, ..., en]
NestedListDoc(es) == <<KeyLine, Spaces(2) \o <<"[">> \o CommaJoin(es) \o <<"]">>>>

\* k: and the block sequence - e1 ... - en at indentation 2
BlockListDoc(es) == <<KeyLine>> \o [i \in 1..Len(es) |-> Spaces(2) \o <<"-", " ">> \o es[i]]

ListDocs ==
    {InlineListDoc(es) : es \in ElemLists} \cup {NestedListDoc(es) : es \in ElemLists}
        \cup {BlockListDoc(es) : es \in ElemLists}

\* documents with a key or a dash that has an empty inline value and no deeper
\* block below it
HangingDocs ==
    { <<<<"k","e","y",":">>>>,
      <<<<"k","e","y",":">>, <<"o","t","h","e","r",":"," ","1">>>>,
      <<<<"a",":"," ","1">>, <<"k","e","y",":">>, <<>>, <<"o","t","h","e","r",":"," ","1">>>>,
      <<<<"a",":"," ","1">>, <<>>, <<"b",":"," ","2">>, <<"k","e","y",":">>>>,
      <<<<"m",":">>, <<" "," ","a",":">>>>,
      <<<<"m",":">>, <<" "," ","a",":">>, <<" "," ","b",":"," ","1">>>>,
      <<<<"m",":">>, <<" "," ","a",":"," ","1">>, <<" "," ","b",":">>, <<"c",":"," ","1">>>>,
      <<<<"m",":">>, <<" "," "," "," ","a",":"," ","1">>, <<" "," "," "," ","b",":">>, <<>>, <<" "," ","c",":"," ","1">>>>,
      <<<<"-">>>>,
      <<<<"-"," ","x">>, <<"-">>, <<"-"," ","y">>>>,
      <<<<"-"," ","x">>, <<"-"," ","y">>, <<"-">>, <<>>, <<"z">>>>,
      <<<<"-"," ","a",":">>>>,
      <<<<"-"," ","a",":">>, <<"-"," ","b">>>>,
      <<<<"-"," ","x">>, <<"-"," ","a",":">>, <<>>, <<"-"," ","b">>>>,
      <<<<"-"," ","a",":"," ","1">>, <<" "," ","b",":">>>>,
      <<<<"-"," ","a",":"," ","1">>, <<" "," ","b",":">>, <<" "," ","c",":"," ","2">>>>,
      <<<<"-"," ","x">>, <<"-"," ","a",":"," ","1">>, <<" "," "," "," ","b",":">>, <<"-"," ","y">>>> }

\* documents with bracketed text: JSON literals, well formed and malformed, inline
\* and as nested blocks
BracketDocs ==
    { <<<<"k",":"," ","[","x","]">>>>,
      <<<<"k",":"," ","{","a",":"," ","1","}">>>>,
      <<<<"k",":">>, <<" "," ","[","x","]">>>>,
      <<<<"k",":">>, <<" "," ","{","a",":"," ","1","}">>>>,
      <<<<"k",":">>, <<" "," ","[","1",",">>, <<" "," ","x","]">>>>,
      <<<<"k",":">>, <<" "," ","{","\"","a","\"",":"," ","[","1",",">>, <<" "," ","2","}">>>>,
      <<<<"-"," ","[","x","]">>>>,
      <<<<"k",":">>, <<" "," ","[","1",",">>, <<" "," ","2","]">>>>,
      <<<<"k",":">>, <<" "," ","{","\"","a","\"",":"," ","1","}">>>>,
      <<<<"k",":"," ","{","\"","a","\"",":"," ","1","}">>>>,
      <<<<"k",":">>, <<" "," ","-"," ","[","1",",">>, <<" "," ","-"," ","x","]">>>> }

\* scalar tokens: base prefixes, keywords, quoted texts and other texts
BaseTokens ==
    { <<"0","x","F","F">>,
      <<"0","X","F","F">>,
      <<"0","x","1","f">>,
      <<"0","x","0">>,
      <<"0","x","0","0","0","0","0","0","0","0","f","f">>,
      <<"0","x","7","f","f","f","f","f","f","f">>,
      <<"0","X","7","F","F","F","F","F","F","F">>,
      <<"0","x","8","0","0","0","0","0","0","0">>,
      <<"0","x","f","f","f","f","f","f","f","f">>,
      <<"0","x","1","0","0","0","0","0","0","0","0">>,
      <<"0","o","7","7","7">>,
      <<"0","O","1","7">>,
      <<"0","o","0">>,
      <<"0","o","1","7","7","7","7","7","7","7","7","7","7">>,
      <<"0","o","2","0","0","0","0","0","0","0","0","0","0">>,
      <<"0","b","1","0","1","0">>,
      <<"0","B","1","1">>,
      <<"0","b","0">>,
      <<"0","b","1","1","1","1","1","1","1","1","1","1","1","1","1","1","1","1","1","1","1","1","1","1","1","1","1","1","1","1","1","1","1">>,
      <<"0","b","1","0","0","0","0","0","0","0","0","0","0","0","0","0","0","0","0","0","0","0","0","0","0","0","0","0","0","0","0","0","0","0">> }

KeywordTokens ==
    { <<"n","u","l","l">>,
      <<"~">>,
      <<"N","u","l","l">>,
      <<"N","U","L","L">>,
      <<"t","r","u","e">>,
      <<"T","r","u","e">>,
      <<"T","R","U","E">>,
      <<"f","a","l","s","e">>,
      <<"F","a","l","s","e">>,
      <<"F","A","L","S","E">> }

QuotedTokens ==
    { <<"\"","n","u","l","l","\"">>,
      <<"'","n","u","l","l","'">>,
      <<"\"","~","\"">>,
      <<"'","~","'">>,
      <<"\"","N","u","l","l","\"">>,
      <<"'","N","U","L","L","'">>,
      <<"\"","t","r","u","e","\"">>,
      <<"'","T","r","u","e","'">>,
      <<"\"","T","R","U","E","\"">>,
      <<"\"","f","a","l","s","e","\"">>,
      <<"'","F","a","l","s","e","'">>,
      <<"'","F","A","L","S","E","'">>,
      <<"\"","2","5","\"">>,
      <<"'","3",".","1","4","'">>,
      <<"\"","0","x","1","F","\"">>,
      <<"'","-","1","7","'">>,
      <<"\"","1","e","3","\"">>,
      <<"\"","\"">>,
      <<"'","'">>,
      <<"\"",".","i","n","f","\"">> }

OtherTokens ==
    { <<"h","e","l","l","o">>,
      <<"0","x","Z","Z">>,
      <<"0","x">>,
      <<"0","o","8">>,
      <<"0","b","2">>,
      <<"1","2","a","b">>,
      <<"1",".","5">>,
      <<"-","1","7">>,
      <<"+","4">>,
      <<"-">>,
      <<"+">>,
      <<".">>,
      <<"e">>,
      <<"1","e">>,
      <<"1","e","4","0","0">>,
      <<".","i","n","f">>,
      <<"-",".","I","N","F">>,
      <<".","n","a","n">>,
      <<"n","U","L","L">>,
      <<"t","R","U","E">>,
      <<"y","e","s">>,
      <<"2","5">>,
      <<"9","9","9","9","9","9","9","9","9","9","9","9","9","9","9","9","9","9","9","9">>,
      <<"9","2","2","3","3","7","2","0","3","6","8","5","4","7","7","5","8","0","7">>,
      <<"9","2","2","3","3","7","2","0","3","6","8","5","4","7","7","5","8","0","8">>,
      <<"-","9","2","2","3","3","7","2","0","3","6","8","5","4","7","7","5","8","0","9">>,
      <<"[","x">>,
      <<"x","]">>,
      <<"{","a">>,
      <<"a","}">>,
      <<"\"","a","b","c">>,
      <<"a","b","c","\"">>,
      <<"'","a","\"">>,
      <<"a"," ","b">>,
      <<"1"," ","2">>,
      <<"0","x","1","G">>,
      <<"0","b","1","2">>,
      <<"0","o","7","8">>,
      <<"-","-","5">>,
      <<"-"," ","x">>,
      <<"n","a","n">>,
      <<"i","n","f">>,
      <<"0","x","-","1">>,
      <<"0","o","-","7">>,
      <<"a",":","b">>,
      <<"1",".","5",".","2">>,
      <<"1","e","5">>,
      <<"-","1","E","-","2">>,
      <<"0">> }

\* tokens that begin with digits and go on with other characters
TrailingTokens ==
    { <<"1","2","a","b","c">>,
      <<"2","0","2","3","-","0","1","-","0","1">>,
      <<"-","1","7","a","b","c">>,
      <<"+","4","x">>,
      <<"0","0","7","x">>,
      <<"1"," ","2">>,
      <<"5","-">>,
      <<"1","2","_","0","0","0">>,
      <<"1",",","5">>,
      <<"0","-","0">>,
      <<"-","0","q">>,
      <<"4","2","]">>,
      <<"9","9","9","9","9","9","9","9","9","x">>,
      <<"1","0","0","0","0","0","0","0","0","0","x">>,
      <<"9","2","2","3","3","7","2","0","3","6","8","5","4","7","7","5","8","0","7","z">>,
      <<"9","2","2","3","3","7","2","0","3","6","8","5","4","7","7","5","8","0","8","z">>,
      <<"-","9","2","2","3","3","7","2","0","3","6","8","5","4","7","7","5","8","0","8","q">>,
      <<"-","9","2","2","3","3","7","2","0","3","6","8","5","4","7","7","5","8","0","9","q">>,
      <<"9","9","9","9","9","9","9","9","9","9","9","9","9","9","9","9","9","9","9","9","x">>,
      <<"0","0","0","0","0","0","0","0","0","0","0","0","0","0","0","0","0","0","0","0","1","y">>,
      <<"+","-","5">>,
      <<"-","x","1">>,
      <<"1","e","5","x">>,
      <<"1",".","5","x">>,
      <<"1","2","\"">>,
      <<"3","'">> }

ScalarTokens ==
    BaseTokens \cup KeywordTokens \cup QuotedTokens \cup OtherTokens \cup TrailingTokens

\* the one-line documents `k: <token>`
ScalarDocs == {<<KeyLine \o <<" ">> \o tok>> : tok \in ScalarTokens}

\* physical lines with comments, trailing blanks and carriage returns
CommentDocs ==
    { <<<<"a",":"," ","1"," ","#"," ","c">>, <<"b",":"," ","2"," "," ">>>>,
      <<<<"#"," ","f","u","l","l">>, <<"c",":"," ","3","\t">>>>,
      <<<<"d",":"," ","x","\r">>, <<"e",":"," ","'","a","#","b","'">>>>,
      <<<<" "," ">>, <<"k",":"," ","v"," ","#","x"," ","#","y">>>>,
      <<<<"a",":"," ","1"," ","\t","#"," ","c"," ","\t">>>>,
      <<<<"k",":"," "," ","#"," ","c">>, <<" "," ","-"," ","1"," ">>, <<" "," ","-"," ","2","\t","#","x">>>>,
      <<<<"#">>>>,
      <<<<"a",":"," ","1"," ","#">>, <<"\t">>, <<"b",":"," ","2"," ","\r">>>> }

\* blocks with blank lines between and after their lines, and blocks that end at
\* a line of another indentation or shape
BlankDocs ==
    { <<<<"k",":">>, <<" "," ","x">>, <<>>, <<"z",":"," ","1">>>>,
      <<<<"k",":">>, <<" "," ","[","1","]">>, <<>>, <<"z",":"," ","1">>>>,
      <<<<"k",":">>, <<>>, <<" "," ","x">>>>,
      <<<<"-">>, <<" "," ","x">>, <<>>, <<"-"," ","y">>>>,
      <<<<"k",":">>, <<" "," ","-"," ","a">>, <<>>, <<" "," ","-"," ","b">>, <<"z",":"," ","1">>>>,
      <<<<"k",":">>, <<" "," "," "," ","-"," ","a">>, <<" "," ","-"," ","b">>>>,
      <<<<"k",":">>, <<" "," ","a",":"," ","1">>, <<>>, <<" "," ","b",":"," ","2">>, <<>>, <<"z",":"," ","3">>>>,
      <<<<"k",":">>, <<>>, <<" "," ","[","1",",">>, <<>>, <<" "," ","2","]">>, <<>>, <<"z",":"," ","1">>>>,
      <<<<"-"," ","a",":"," ","1">>, <<>>, <<" "," ","b",":"," ","2">>, <<>>, <<"-"," ","c">>>>,
      <<<<"-"," ","-"," ","a">>, <<>>, <<" "," ","-"," ","b">>, <<>>, <<"-"," ","c">>>>,
      <<<<"k",":">>, <<" "," ","m",":">>, <<" "," "," "," "," "," ","a",":"," ","1">>, <<" "," "," "," ","b",":"," ","2">>>>,
      <<<<"k",":">>, <<" "," ","a",":"," ","1">>, <<" "," ","-"," ","b">>>>,
      <<<<"k",":">>, <<" "," ","-"," ","a">>, <<" "," ","b",":"," ","1">>>>,
      <<<<"k",":">>, <<" "," ","-"," ","a">>, <<" "," "," "," ","-"," ","b">>>>,
      <<<<"k",":">>, <<" "," ","[","1","]">>, <<" "," ","[","2","]">>>>,
      <<<<"k",":">>, <<" "," ","x">>, <<" "," ","y">>>>,
      <<<<"k",":">>, <<" "," ","a",":"," ","1">>, <<" "," "," "," "," "," ","b",":"," ","2">>, <<"z",":"," ","1">>>>,
      <<<<"-">>, <<" "," ","-"," ","2">>, <<" "," ","-">>, <<" "," "," "," ","-"," ","3">>, <<"-"," ","4">>>>,
      <<<<"a",":">>, <<" "," ","b",":">>, <<" "," "," "," ","c",":">>, <<" "," "," "," "," "," ","-"," ","1">>, <<" "," ","d",":"," ","2">>>> }

\* documents whose root lines are plain scalars or bracketed texts
RootScalarDocs ==
    { <<<<"[","1",","," ","2","]">>>>,
      <<<<"{","\"","a","\"",":"," ","1","}">>>>,
      <<<<"x">>>>,
      <<<<"4","2">>>>,
      <<<<"x">>, <<"y">>>>,
      <<<<"[","1",",">>, <<"2","]">>>>,
      <<<<"n","u","l","l">>>>,
      <<<<>>, <<"x">>, <<>>>>,
      <<<<"x">>, <<"a",":"," ","1">>>>,
      <<<<"-"," ","[","1",","," ","2","]">>>>,
      <<<<"-","5">>>> }

\* nested blocks that begin with a bracket or a brace: balanced and unbalanced,
\* with brackets inside quoted spans, and rejected by the JSON reader
JsonBlockDocs ==
    { <<<<"k",":">>, <<" "," ","[","1",",">>, <<"z",":"," ","1">>>>,
      <<<<"k",":">>, <<" "," ","[","1",",">>, <<" "," ","2">>>>,
      <<<<"a",":">>, <<" "," ","{","x",":"," ","1","}">>, <<"b",":">>, <<" "," ","[","1",",">>>>,
      <<<<"k",":">>, <<" "," ","{","\"","a","\"",":"," ","\"","}","\"",",">>, <<" "," ","\"","b","\"",":"," ","2","}">>>>,
      <<<<"k",":">>, <<" "," ","[","\"","a","\\","\"","]","\"",",">>, <<" "," ","1","]">>>>,
      <<<<"k",":">>, <<" "," ","[","'","a","]","'",",">>, <<" "," ","1","]">>>>,
      <<<<"k",":">>, <<" "," ","[","1","]","]">>, <<" "," ","x">>>>,
      <<<<"k",":">>, <<" "," ","{","\"","a","\"",":"," ","1","}">>, <<" "," "," "," ","x">>, <<"z",":"," ","2">>>>,
      <<<<"k",":">>, <<" "," ","[","1",",">>, <<" "," "," "," "," "," ","2",",">>, <<" "," ","3","]">>, <<"z",":"," ","1">>>>,
      <<<<"k",":">>, <<" "," ","[","1",",">>, <<>>, <<" "," ","2","]">>>>,
      <<<<"k",":">>, <<" "," ","{","\"","a","\"",":"," ","[","1",",">>, <<" "," ","2","}">>>>,
      <<<<"k",":">>, <<" "," ","[","1",","," ","2","]"," ","x">>>>,
      <<<<"k",":">>, <<" "," ","[","[","1","]",",">>, <<" "," ","[","2","]","]">>, <<" "," ","[","3","]">>>>,
      <<<<"k",":">>, <<" "," ","{","\"","a","\"",":">>, <<" "," ","{","\"","b","\"",":"," ","1","}">>, <<" "," ","}">>, <<"z",":"," ","1">>>>,
      <<<<"k",":">>, <<" "," ","[","1"," ","2","]">>>>,
      <<<<"k",":">>, <<" "," ","{","a",":"," ","1",",">>, <<" "," ","b",":"," ","2","}">>>>,
      <<<<"-">>, <<" "," ","[","1",",">>, <<" "," ","2","]">>, <<"-"," ","x">>>>,
      <<<<"-">>, <<" "," ","{">>, <<"-"," ","x">>>>,
      <<<<"k",":">>, <<" "," ","[","\"","]","\"">>, <<" "," ","]">>>>,
      <<<<"k",":">>, <<" "," ","]">>, <<" "," ","x">>>> }

\* sequence items with continuation lines that shift to another deeper
\* indentation
ShiftDocs ==
    { <<<<"-"," ","-"," ","a">>, <<" "," ","-"," ","b">>, <<" "," "," "," ","-"," ","c">>>>,
      <<<<"-"," ","-"," ","a">>, <<" "," "," "," ","-"," ","b">>, <<" "," ","-"," ","c">>>>,
      <<<<"-"," ","-"," ","a">>, <<" "," ","-"," ","b">>, <<" "," ","-"," ","c">>, <<" "," "," ","-"," ","d">>, <<"-"," ","e">>>>,
      <<<<"-"," ","-"," ","a"," ","-"," ","b">>, <<" "," ","-"," ","c">>, <<>>, <<" "," "," "," "," "," ","-"," ","d">>>>,
      <<<<"-"," ","a",":"," ","1">>, <<" "," ","b",":"," ","2">>, <<" "," "," "," ","c",":"," ","3">>>>,
      <<<<"-"," ","a",":"," ","1">>, <<" "," "," "," ","b",":"," ","2">>, <<" "," ","c",":"," ","3">>, <<"-"," ","z">>>>,
      <<<<"-"," ","a",":"," ","1">>, <<" "," ","b",":"," ","2">>, <<" "," ","c",":"," ","3">>, <<" "," "," ","d",":"," ","4">>>>,
      <<<<"-"," ","a",":"," ","x">>, <<>>, <<" "," ","b",":"," ","y">>, <<>>, <<" "," "," "," ","c",":"," ","z">>, <<" "," ","d",":"," ","w">>>>,
      <<<<"k",":">>, <<" "," ","-"," ","a",":"," ","1">>, <<" "," "," "," ","b",":"," ","2">>, <<" "," "," "," "," "," ","c",":"," ","3">>>>,
      <<<<"k",":">>, <<" "," ","-"," ","-"," ","a">>, <<" "," "," "," ","-"," ","b">>, <<" "," "," "," "," "," ","-"," ","c">>>>,
      <<<<"-"," ","x">>, <<"-"," ","a",":"," ","1">>, <<" "," ","b",":"," ","2">>, <<" "," "," ","c",":"," ","3">>>>,
      <<<<"-"," ","x">>, <<"-"," ","-"," ","a">>, <<" "," ","-"," ","b">>, <<" "," "," ","-"," ","c">>>> }

\* nested blocks whose first line is a null keyword, or nearly one
NullBlockDocs ==
    { <<<<"k",":">>, <<" "," ","n","u","l","l">>>>,
      <<<<"k",":">>, <<" "," ","~">>>>,
      <<<<"a",":"," ","1">>, <<"k",":">>, <<>>, <<" "," ","N","U","L","L">>, <<"z",":"," ","2">>>>,
      <<<<"-">>, <<" "," ","n","u","l","l">>>>,
      <<<<"-"," ","x">>, <<"-">>, <<" "," ","~">>, <<"-"," ","y">>>>,
      <<<<"-"," ","a",":">>, <<" "," "," "," ","N","u","l","l">>>>,
      <<<<"-"," ","a",":"," ","1">>, <<" "," ","b",":">>, <<" "," "," "," ","~">>>>,
      <<<<"m",":">>, <<" "," ","a",":">>, <<" "," "," "," ","n","u","l","l">>, <<" "," ","b",":"," ","1">>>>,
      <<<<"k",":">>, <<" "," ","n","u","l">>>>,
      <<<<"k",":">>, <<" "," ","\"","n","u","l","l","\"">>>>,
      <<<<"-">>, <<" "," ","~","x">>>>,
      <<<<"k",":">>, <<" "," ","n","u","l","l",":"," ","1">>>>,
      <<<<"k",":">>, <<" "," ","-"," ","n","u","l","l">>>>,
      <<<<"k",":">>, <<" "," ","n","U","L","L">>>> }

\* documents with a line that holds no colon and starts with no dash and no
\* bracket, at the root and inside nested blocks
StrayDocs ==
    { <<<<"a",":"," ","1">>, <<"s","t","r","a","y">>, <<"b",":"," ","2">>>>,
      <<<<"s","t","r","a","y">>, <<"a",":"," ","1">>>>,
      <<<<"a",":"," ","1">>, <<"b",":"," ","2">>, <<"s","t","r","a","y"," ","w","o","r","d","s">>>>,
      <<<<"k",":">>, <<" "," ","a",":"," ","1">>, <<"s","t","r","a","y">>, <<"z",":"," ","2">>>>,
      <<<<"k",":">>, <<" "," ","a",":"," ","1">>, <<" "," "," "," "," "," ","s","t","r","a","y">>, <<" "," ","b",":"," ","2">>>>,
      <<<<"k",":">>, <<" "," ","a",":"," ","1">>, <<" "," "," "," ","s","t","r","a","y">>, <<" "," ","b",":"," ","2">>, <<"z",":"," ","3">>>>,
      <<<<"k",":">>, <<" "," ","a",":"," ","1">>, <<" "," "," "," "," "," ","s","t","r","a","y">>>>,
      <<<<"m",":">>, <<" "," ","k",":">>, <<" "," "," "," ","a",":"," ","1">>, <<" "," "," "," "," "," "," "," ","s","t","r","a","y">>, <<" "," "," "," ","b",":"," ","2">>>>,
      <<<<"-"," ","a">>, <<"s","t","r","a","y">>, <<"-"," ","b">>>>,
      <<<<"k",":">>, <<" "," ","-"," ","a">>, <<" "," "," "," "," "," ","s","t","r","a","y">>, <<" "," ","-"," ","b">>>>,
      <<<<"k",":">>, <<" "," ","a",":"," ","1">>, <<" "," ","b",":"," ","2">>>>,
      <<<<"k",":">>, <<" "," ","a",":"," ","1">>, <<" "," "," ","x"," ","y">>, <<" "," ","b",":"," ","2">>, <<" "," ","c",":"," ","3">>>> }

\* lines indented with tabs, which count two columns each
TabbedDocs ==
    { <<<<"k",":">>, <<"\t","\t","x">>>>,
      <<<<"k",":">>, <<"\t","\t","\t","x",":"," ","1">>>>,
      <<<<"-">>, <<"\t","\t","x">>>>,
      <<<<"\t","\t","x">>>>,
      <<<<"\t","\t","k",":"," ","v">>>>,
      <<<<"k",":">>, <<"\t","\t","[","1","]">>>>,
      <<<<"k",":">>, <<"\t","x">>>>,
      <<<<"k",":">>, <<" "," ","[","1",",">>, <<"\t","\t","2","]">>>>,
      <<<<"-"," ","a",":"," ","1">>, <<"\t","\t","b">>>>,
      <<<<"k",":">>, <<" ","\t","\t","x">>>> }

Docs ==
    KVDocs \cup RootDocs \cup SeqDocs \cup ListDocs \cup HangingDocs \cup BracketDocs
        \cup ScalarDocs \cup CommentDocs \cup BlankDocs \cup RootScalarDocs
        \cup JsonBlockDocs \cup ShiftDocs \cup NullBlockDocs \cup StrayDocs
        \cup TabbedDocs

\* the characters a read past the end of a line may yield
OobChars == {NUL, "-"}

\* some line is shorter than its indentation: the parser may index past its end
ReadsPastEnd(ls) == \E i \in 1..Len(ls) : get_indent(ls[i]) > Len(ls[i])

----------------------------------------------------------------------------
(* The state machine: a yaml_parser is constructed over an input, then parse() runs *)

VARIABLES
    input,          \* the physical lines of the input stream
    oob,            \* the character a read past the end of a std::string yields
    lines,          \* yaml_parser::lines
    current_line,   \* yaml_parser::current_line
    root,           \* the local `root` of parse()
    pc,             \* "new", "ready", "loop" (in parse()'s while loop), "done", "error"
    result,         \* the value parse() returned
    error,          \* the exception parse() threw
    log             \* the cursor events so far

vars == <<input, oob, lines, current_line, root, pc, result, error, log>>

Init ==
    /\ input \in Docs
    /\ oob \in (IF ReadsPastEnd(preprocess_input(input)) THEN OobChars ELSE {NUL})
    /\ lines = <<>>
    /\ current_line = 0
    /\ root = VNull
    /\ pc = "new"
    /\ result = VNull
    /\ error = NoErr
    /\ log = <<>>

\* yaml_parser(std::istream&)
Construct ==
    /\ pc = "new"
    /\ lines' = preprocess_input(input)
    /\ pc' = "ready"
    /\ UNCHANGED <<input, oob, current_line, root, result, error, log>>

\* the entry of parse(): root = json::object(), current_line = 0
ParseBegin ==
    /\ pc = "ready"
    /\ root' = EmptyObj
    /\ current_line' = 0
    /\ pc' = "loop"
    /\ UNCHANGED <<input, oob, lines, result, error, log>>

\* the parser object as parse() sees it
Self == Parser(lines, oob)

\* parse() is in its loop with a line to read
AtLine == pc = "loop" /\ current_line < Len(lines)

ThisLine == lines[current_line + 1]

\* the state after one iteration of the loop that came to st
Apply(st) ==
    /\ pc' = st.pc
    /\ current_line' = st.cur
    /\ root' = st.root
    /\ result' = st.result
    /\ error' = st.error
    /\ log' = st.log
    /\ UNCHANGED <<input, oob, lines>>

\* an empty line is skipped
RootSkipEmpty ==
    /\ AtLine
    /\ ThisLine = <<>>
    /\ Apply(RootSkip(current_line, root, log))

\* a dash at column 0 while root is empty: parse() returns parse_sequence(0)
RootSequence ==
    /\ AtLine
    /\ ThisLine # <<>>
    /\ ThisLine[1] = "-"
    /\ root = EmptyObj
    /\ Apply(RootSeq(root, parse_sequence(Self, current_line, 0, log)))

\* a dash at column 0 after an entry was stored: parse() throws
RootMixError ==
    /\ AtLine
    /\ ThisLine # <<>>
    /\ ThisLine[1] = "-"
    /\ root # EmptyObj
    /\ Apply(RootMix(Self, current_line, root, log))

\* a line without a colon is skipped
RootSkipStray ==
    /\ AtLine
    /\ ThisLine # <<>>
    /\ ThisLine[1] # "-"
    /\ Find(ThisLine, ":") = NPOS
    /\ Apply(RootSkip(current_line, root, log))

\* a key with an empty inline value: its value is the nested block
RootEntryBlock ==
    /\ AtLine
    /\ ThisLine # <<>>
    /\ ThisLine[1] # "-"
    /\ Find(ThisLine, ":") # NPOS
    /\ ValueText(ThisLine, Find(ThisLine, ":")) = <<>>
    /\ Apply(RootEntry(current_line, root, log, ThisLine,
                       NestedBlock(Self, current_line + 1, get_indent(ThisLine), "key",
                                   KeyText(ThisLine, get_indent(ThisLine), Find(ThisLine, ":")),
                                   Inc(log, "parse", current_line, 0))))

\* a key with an inline value: its value is parse_scalar of it
RootEntryScalar ==
    /\ AtLine
    /\ ThisLine # <<>>
    /\ ThisLine[1] # "-"
    /\ Find(ThisLine, ":") # NPOS
    /\ ValueText(ThisLine, Find(ThisLine, ":")) # <<>>
    /\ Apply(RootEntry(current_line, root, log, ThisLine,
                       Scalar(parse_scalar(ValueText(ThisLine, Find(ThisLine, ":"))),
                              current_line + 1, Inc(log, "parse", current_line, 0))))

\* the loop ends: parse() returns root
RootReturn ==
    /\ pc = "loop"
    /\ current_line >= Len(lines)
    /\ pc' = "done"
    /\ result' = root
    /\ UNCHANGED <<input, oob, lines, current_line, root, error, log>>

Next ==
    \/ Construct
    \/ ParseBegin
    \/ RootSkipEmpty
    \/ RootSequence
    \/ RootMixError
    \/ RootSkipStray
    \/ RootEntryBlock
    \/ RootEntryScalar
    \/ RootReturn

Spec == Init /\ [][Next]_vars

\* the steps of parse() compose to the function: what the machine ends with is
\* what parse_yaml yields
StepsAgreeWithParseYaml ==
    pc \in {"done", "error"} =>
        /\ result = parse_yaml(input, oob).result
        /\ error = parse_yaml(input, oob).error

----------------------------------------------------------------------------
(* Properties.  The shapes of documents are read off `lines`, the line table  *)
(* the constructor built.                                                     *)

\* parse() has ended, by a return or by a throw
Ended == pc \in {"done", "error"}

\* the line is `key: value` at indentation 0 with a non-empty value
IsKVLine(line) ==
    /\ line # <<>>
    /\ line[1] \notin {" ", "\t", "-"}
    /\ Find(line, ":") # NPOS
    /\ ValueText(line, Find(line, ":")) # <<>>

KeyOfLine(line) == KeyText(line, get_indent(line), Find(line, ":"))

ValueOfLine(line) == ValueText(line, Find(line, ":"))

\* a document made only of `key: value` lines at indentation 0, keys distinct
IsKVDoc(ls) ==
    /\ ls # <<>>
    /\ \A i \in 1..Len(ls) : IsKVLine(ls[i])
    /\ \A i, j \in 1..Len(ls) : KeyOfLine(ls[i]) = KeyOfLine(ls[j]) => i = j

\* the lines whose value the Scalar Resolver rejects
Rejected(ls) == {i \in 1..Len(ls) : Failed(parse_scalar(ValueOfLine(ls[i])))}

Least(S) == CHOOSE i \in S : \A j \in S : i <= j

\* C1: a document of `key: value` lines at indentation 0 with distinct keys and
\* non-empty values parses to an object with exactly the keys of its lines, each
\* mapped to what parse_scalar gives for the text after the first colon; when
\* parse_scalar rejects a value, parse() throws what parse_scalar threw
C1_KeyValueLines ==
    (Ended /\ IsKVDoc(lines)) =>
        IF Rejected(lines) = {}
        THEN /\ pc = "done"
             /\ result.t = "obj"
             /\ Len(result.v) = Len(lines)
             /\ \A i \in 1..Len(lines) :
                    /\ HasKey(result, KeyOfLine(lines[i]))
                    /\ Get(result, KeyOfLine(lines[i])) = parse_scalar(ValueOfLine(lines[i])).v
        ELSE /\ pc = "error"
             /\ error = parse_scalar(ValueOfLine(lines[Least(Rejected(lines))])).err

\* C1 witness: the three lines of the specification's example have been parsed
\* to the integer 25, the boolean true and the string test_user
C1_Witness ==
    /\ pc = "done"
    /\ IsKVDoc(lines)
    /\ Len(lines) = 3
    /\ HasKey(result, <<"a","g","e">>) /\ Get(result, <<"a","g","e">>) = VInt(25)
    /\ HasKey(result, <<"a","c","t","i","v","e">>)
    /\ Get(result, <<"a","c","t","i","v","e">>) = VBool(TRUE)
    /\ HasKey(result, <<"n","a","m","e">>)
    /\ Get(result, <<"n","a","m","e">>) = VStr(<<"t","e","s","t","_","u","s","e","r">>)

\* every object inside the value v iterates its keys in strictly ascending order
RECURSIVE ObjectsOrdered(_)
ObjectsOrdered(v) ==
    IF v.t = "obj"
    THEN /\ \A i \in 1..(Len(v.v) - 1) : StrLess(v.v[i][1], v.v[i + 1][1])
         /\ \A i \in 1..Len(v.v) : ObjectsOrdered(v.v[i][2])
    ELSE IF v.t = "arr" THEN \A i \in 1..Len(v.v) : ObjectsOrdered(v.v[i])
    ELSE TRUE

\* the keys of the lines of a document, in file order
KeysInFileOrder(ls) == [i \in 1..Len(ls) |-> KeyOfLine(ls[i])]

IsSpaceIndented(line, n) ==
    /\ Len(line) > n
    /\ \A i \in 1..n : line[i] = " "
    /\ line[n + 1] \notin {" ", "\t"}

\* the text after the dash at column n
DashText(line, n) == LTrim(SubstrFrom(line, n + 1))

\* a plain scalar: a non-empty text that is no dash item, no bracketed literal
\* and no `key: value`
IsPlain(text) ==
    /\ text # <<>>
    /\ text[1] \notin {"-", "[", "{"}
    /\ Find(text, ":") = NPOS

\* the line is `- <plain scalar>` at n spaces
IsItemLine(line, n) ==
    /\ IsSpaceIndented(line, n)
    /\ line[n + 1] = "-"
    /\ IsPlain(DashText(line, n))

\* N >= 1 consecutive lines `- <plain scalar>` at n spaces
IsPlainSeq(ls, n) == ls # <<>> /\ \A i \in 1..Len(ls) : IsItemLine(ls[i], n)

\* the array of what parse_scalar gives for the text after each dash, in file order
ItemsOf(ls, n) == VArr([i \in 1..Len(ls) |-> parse_scalar(DashText(ls[i], n)).v])

\* the line is `key:` at indentation 0 with an empty inline value
IsBlockKey(line) ==
    /\ line # <<>>
    /\ line[1] \notin {" ", "\t", "-"}
    /\ Find(line, ":") # NPOS
    /\ ValueOfLine(line) = <<>>

\* a block sequence of plain scalars nested under a key
IsKeyedPlainSeq(ls) ==
    /\ Len(ls) >= 2
    /\ IsBlockKey(ls[1])
    /\ get_indent(ls[2]) > 0
    /\ IsPlainSeq(Tail(ls), get_indent(ls[2]))

\* C3: N consecutive lines `- <plain scalar>` at one indentation, at the root or
\* under a key with an empty inline value, yield an array of exactly N elements,
\* element i being what parse_scalar gives for the text after the i-th dash
C3_BlockSequence ==
    /\ (Ended /\ IsPlainSeq(lines, 0)) =>
            (pc = "done" /\ result = ItemsOf(lines, 0))
    /\ (Ended /\ IsKeyedPlainSeq(lines)) =>
            /\ pc = "done"
            /\ result = ObjSet(EmptyObj, KeyOfLine(lines[1]),
                                ItemsOf(Tail(lines), get_indent(lines[2])))

\* C3 witness: a root sequence of three plain scalars has been returned as an
\* array of three elements that are not all alike
C3_Witness ==
    /\ pc = "done"
    /\ IsPlainSeq(lines, 0)
    /\ Len(lines) = 3
    /\ result.t = "arr" /\ Len(result.v) = 3
    /\ result.v[1] # result.v[3]

\* C3 witness under a key: the nested sequence of two scalars has been returned
C3_WitnessNested ==
    /\ pc = "done"
    /\ IsKeyedPlainSeq(lines)
    /\ Len(lines) = 3
    /\ Len(Get(result, KeyOfLine(lines[1])).v) = 2

\* the indices of the lines of ls from i on that start with a dash at column 0
RECURSIVE Heads(_, _)
Heads(ls, i) ==
    IF i > Len(ls) THEN <<>>
    ELSE IF ls[i] # <<>> /\ ls[i][1] = "-" THEN <<i>> \o Heads(ls, i + 1)
    ELSE Heads(ls, i + 1)

\* the last line of the item that starts at line hs[g]
GroupEnd(ls, hs, g) == IF g < Len(hs) THEN hs[g + 1] - 1 ELSE Len(ls)

\* the lines after the head of the item that starts at line hs[g]
GroupTail(ls, hs, g) == SubSeq(ls, hs[g] + 1, GroupEnd(ls, hs, g))

\* the line is `key: value` at n spaces with a plain scalar as its value
IsNestedKVLine(line, n) ==
    /\ IsSpaceIndented(line, n)
    /\ line[n + 1] # "-"
    /\ Find(line, ":") # NPOS
    /\ IsPlain(ValueOfLine(line))

\* the head `- k:` of a mapping item: one colon, which ends the line
IsMapHead(line) ==
    /\ IsSpaceIndented(line, 0)
    /\ line[1] = "-"
    /\ DashText(line, 0) # <<>>
    /\ DashText(line, 0)[1] \notin {"-", "[", "{"}
    /\ Find(DashText(line, 0), ":") = Len(DashText(line, 0)) - 1

\* `k1: v1 ... kn: vn`, n >= 1, at one indentation deeper than column 0
IsMapBody(ls) ==
    /\ ls # <<>>
    /\ get_indent(ls[1]) > 0
    /\ \A i \in 1..Len(ls) : IsNestedKVLine(ls[i], get_indent(ls[1]))

\* a root sequence whose every item is `- k:` with a body of key-value lines
IsMapItemsDoc(ls) ==
    /\ ls # <<>>
    /\ Heads(ls, 1) # <<>>
    /\ Heads(ls, 1)[1] = 1
    /\ \A g \in 1..Len(Heads(ls, 1)) :
           /\ IsMapHead(ls[Heads(ls, 1)[g]])
           /\ IsMapBody(GroupTail(ls, Heads(ls, 1), g))

\* the object {k1: v1, ..., kn: vn} of the key-value lines ls[i..]
RECURSIVE ObjectOfLines(_, _, _)
ObjectOfLines(ls, i, obj) ==
    IF i > Len(ls) THEN obj
    ELSE ObjectOfLines(ls, i + 1,
                       ObjSet(obj, KeyOfLine(ls[i]), parse_scalar(ValueOfLine(ls[i])).v))

\* the key k of the head `- k:`
HeadKey(line) == RTrim(Substr(DashText(line, 0), 0, Find(DashText(line, 0), ":")))

\* the array element of the item at hs[g]: {k: {k1: v1, ..., kn: vn}}
MapItem(ls, hs, g) ==
    ObjSet(EmptyObj, HeadKey(ls[hs[g]]), ObjectOfLines(GroupTail(ls, hs, g), 1, EmptyObj))

MapItems(ls, hs) == VArr([g \in 1..Len(hs) |-> MapItem(ls, hs, g)])

\* C4: a sequence item `- k:` followed by lines `k1: v1 ... kn: vn` at one
\* consistent deeper indentation yields the array element {k: {k1: v1, ..., kn: vn}}
C4_MappingInSequence ==
    (Ended /\ IsMapItemsDoc(lines)) =>
        (pc = "done" /\ result = MapItems(lines, Heads(lines, 1)))

\* C4 witness: `- map1:` with `a: 1` and `b: 2` below it has been returned as
\* [{"map1": {"a": 1, "b": 2}}]
C4_Witness ==
    /\ pc = "done"
    /\ IsMapItemsDoc(lines)
    /\ Len(lines) = 3
    /\ result = VArr(<<VObj(<< <<<<"m","a","p","1">>,
                                 VObj(<< <<<<"a">>, VInt(1)>>, <<<<"b">>, VInt(2)>> >>)>> >>)>>)

\* the head `- - a` of a nested-sequence item, a being a plain scalar that holds
\* no further dash item
IsSeqHead(line) ==
    /\ IsSpaceIndented(line, 0)
    /\ line[1] = "-"
    /\ DashText(line, 0) # <<>>
    /\ DashText(line, 0)[1] = "-"
    /\ IsPlain(DashText(DashText(line, 0), 0))
    /\ FindSpDashFrom(DashText(DashText(line, 0), 0), 0) = NPOS

\* continuation lines: `- <plain scalar>` at one indentation deeper than column 0
IsSeqBody(ls) ==
    ls # <<>> => (get_indent(ls[1]) > 0 /\ IsPlainSeq(ls, get_indent(ls[1])))

\* a root sequence whose every item is `- - a` with its continuation lines
IsSeqItemsDoc(ls) ==
    /\ ls # <<>>
    /\ Heads(ls, 1) # <<>>
    /\ Heads(ls, 1)[1] = 1
    /\ \A g \in 1..Len(Heads(ls, 1)) :
           /\ IsSeqHead(ls[Heads(ls, 1)[g]])
           /\ IsSeqBody(GroupTail(ls, Heads(ls, 1), g))

\* the nested array of the item at hs[g]: a, then the continuation lines in file order
SeqItem(ls, hs, g) ==
    VArr(<<parse_scalar(DashText(DashText(ls[hs[g]], 0), 0)).v>>
         \o (IF GroupTail(ls, hs, g) = <<>> THEN <<>>
             ELSE ItemsOf(GroupTail(ls, hs, g), get_indent(ls[hs[g] + 1])).v))

SeqItems(ls, hs) == VArr([g \in 1..Len(hs) |-> SeqItem(ls, hs, g)])

\* C5: a sequence item `- - a` yields a nested array as that item; every
\* following line at one consistent deeper indentation whose content starts with
\* a dash is appended to it in file order, and the outer sequence goes on with
\* the next line at the outer indentation
C5_NestedSequence ==
    (Ended /\ IsSeqItemsDoc(lines)) =>
        (pc = "done" /\ result = SeqItems(lines, Heads(lines, 1)))

\* C5 witness: `- - s1`, `  - s2`, `- - 4`, `  - 5.5` has been returned as
\* [[s1, s2], [4, 5.5]]
C5_Witness ==
    /\ pc = "done"
    /\ IsSeqItemsDoc(lines)
    /\ Len(lines) = 4
    /\ result.t = "arr" /\ Len(result.v) = 2
    /\ result.v[1] = VArr(<<VStr(<<"s","1">>), VStr(<<"s","2">>)>>)
    /\ result.v[2].t = "arr" /\ Len(result.v[2].v) = 2
    /\ result.v[2].v[1] = VInt(4)
    /\ result.v[2].v[2].t = "float"

\* the line with every leading tab written as two spaces
RECURSIVE Detab(_)
Detab(line) ==
    IF line = <<>> THEN line
    ELSE IF line[1] = "\t" THEN <<" ", " ">> \o Detab(Tail(line))
    ELSE IF line[1] = " " THEN <<" ">> \o Detab(Tail(line))
    ELSE line

DetabDoc(ls) == [i \in 1..Len(ls) |-> Detab(ls[i])]

\* the leading white space of the line is one tab
IsOneTabLine(line) == Len(line) >= 2 /\ line[1] = "\t" /\ line[2] \notin {" ", "\t"}

\* a document with blocks indented by one tab, its other lines indented by spaces
IsOneTabDoc(ls) ==
    /\ \E i \in 1..Len(ls) : IsOneTabLine(ls[i])
    /\ \A i \in 1..Len(ls) : IsOneTabLine(ls[i]) \/ Detab(ls[i]) = ls[i]

\* what parse() ends with
Outcome(st) == [pc |-> st.pc, result |-> st.result, error |-> st.error]

\* C6 as stated: a block indented with one tab parses to the same value as the
\* same block indented with two spaces; the tab changes no extracted text
C6_TabAsTwoSpaces ==
    (Ended /\ IsOneTabDoc(input)) =>
        Outcome(parse_yaml(DetabDoc(input), NUL)) = [pc |-> pc, result |-> result, error |-> error]

\* C6 witness: `tab_indent:` and `<TAB>key: value` has been returned with the
\* key text cut to `ey`
C6_Witness ==
    /\ pc = "done"
    /\ lines = << <<"t","a","b","_","i","n","d","e","n","t",":">>,
                  <<"\t","k","e","y",":"," ","v","a","l","u","e">> >>
    /\ result = VObj(<< <<<<"t","a","b","_","i","n","d","e","n","t">>,
                         VObj(<< <<<<"e","y">>, VStr(<<"v","a","l","u","e">>)>> >>)>> >>)

\* C7 as stated: the block sequence `- e1 ... - en` under a key parses to the
\* same value as the JSON array literal `[e1, ..., en]`, inline after the key or
\* alone on the nested line
C7_LiteralEqualsBlock ==
    \A es \in ElemLists :
        (Ended /\ input = BlockListDoc(es)) =>
            /\ Outcome(parse_yaml(InlineListDoc(es), NUL))
                   = [pc |-> pc, result |-> result, error |-> error]
            /\ Outcome(parse_yaml(NestedListDoc(es), NUL))
                   = [pc |-> pc, result |-> result, error |-> error]

\* C7 witness: the block sequence of the one integer -5 has been returned as an
\* array that holds the array [5], where the literal `[-5]` gives [-5]
C7_Witness ==
    /\ pc = "done"
    /\ input = BlockListDoc(<< <<"-","5">> >>)
    /\ result = VObj(<< <<<<"k">>, VArr(<<VArr(<<VInt(5)>>)>>)>> >>)
    /\ parse_yaml(InlineListDoc(<< <<"-","5">> >>), NUL).result
           = VObj(<< <<<<"k">>, VArr(<<VInt(0 - 5)>>)>> >>)

\* the line is a column-0 sequence item whose text is a bracketed JSON literal
IsJsonItemLine(line) ==
    /\ IsSpaceIndented(line, 0)
    /\ line[1] = "-"
    /\ is_json_array(DashText(line, 0)) \/ is_json_object(DashText(line, 0))

IsJsonItemsDoc(ls) == ls # <<>> /\ \A i \in 1..Len(ls) : IsJsonItemLine(ls[i])

\* C8 as stated: a sequence item whose text is a single-line JSON literal, an
\* object literal with its colon included, is the value parse_scalar gives for it
C8_JsonLiteralItem ==
    (Ended /\ IsJsonItemsDoc(lines)) => (pc = "done" /\ result = ItemsOf(lines, 0))

\* C8 witness: the item `- {"a": 1}` has been returned as an inline mapping
\* whose key is the text before the colon, not as the object {"a": 1}
C8_Witness ==
    /\ pc = "done"
    /\ lines = << <<"-"," ","{","\"","a","\"",":"," ","1","}">> >>
    /\ result = VArr(<<VObj(<< <<<<"{","\"","a","\"">>, VInt(1)>> >>)>>)
    /\ parse_scalar(DashText(lines[1], 0)).v = VObj(<< <<<<"a">>, VInt(1)>> >>)

\* the first non-blank line of the document is a root-level sequence item and a
\* later line is a top-level `key: value`
IsSequenceThenKey(ls) ==
    \E i, j \in 1..Len(ls) :
        /\ i < j
        /\ \A h \in 1..(i - 1) : ls[h] = <<>>
        /\ ls[i] # <<>> /\ ls[i][1] = "-"
        /\ IsKVLine(ls[j])

MixError == Err("Cannot mix sequences and mappings at root level", 0, <<>>)

\* C9 as stated: a document that begins with a root-level sequence item and later
\* holds a top-level `key: value` line makes parse() fail with the root-mixing
\* error, and no value is returned
C9_SequenceThenKeyFails ==
    (Ended /\ IsSequenceThenKey(lines)) => (pc = "error" /\ error = MixError)

\* C9 witness: `- item1` followed by `key: value` has been returned as ["item1"]
C9_Witness ==
    /\ pc = "done"
    /\ lines = << <<"-"," ","i","t","e","m","1">>, <<"k","e","y",":"," ","v","a","l","u","e">> >>
    /\ result = VArr(<<VStr(<<"i","t","e","m","1">>)>>)

\* the root loop is at a line whose first character is a dash while root holds
\* an entry
AtDashAfterEntry ==
    /\ pc = "loop"
    /\ current_line < Len(lines)
    /\ lines[current_line + 1] # <<>>
    /\ lines[current_line + 1][1] = "-"
    /\ root # EmptyObj

\* C10: when at least one root entry has been stored and the root loop reaches
\* a line whose first character is a dash, parse() throws "Cannot mix sequences
\* and mappings at root level" and returns nothing; a value returned while root
\* holds entries is root itself, never root merged with a sequence
C10_KeyThenSequenceFails ==
    /\ [][AtDashAfterEntry => (pc' = "error" /\ error' = MixError /\ result' = VNull)]_vars
    /\ []((pc = "done" /\ root # EmptyObj) => result = root)

\* C10 witness: parse() has thrown the root-mixing error with an entry in root
C10_Witness ==
    /\ pc = "error"
    /\ error = MixError
    /\ root.t = "obj" /\ Len(root.v) >= 1
    /\ result = VNull
    /\ lines[current_line + 1][1] = "-"

\* the first non-blank line after line i, or 0 when there is none
NextNonBlank(ls, i) ==
    IF \E j \in (i + 1)..Len(ls) : ls[j] # <<>>
    THEN Least({j \in (i + 1)..Len(ls) : ls[j] # <<>>})
    ELSE 0

\* no block below line i for a parent at indentation n: the next non-blank line
\* is absent or not strictly deeper than n
HasNoBlock(ls, i, n) ==
    \/ NextNonBlank(ls, i) = 0
    \/ get_indent(ls[NextNonBlank(ls, i)]) <= n

\* the line is `key:` at n spaces with an empty inline value; a line that begins
\* with a bracket or a brace goes to the JSON detector first and is no key line
IsHangingKey(line, n) ==
    /\ IsSpaceIndented(line, n)
    /\ line[n + 1] \notin {"-", "[", "{"}
    /\ Find(line, ":") # NPOS
    /\ ValueOfLine(line) = <<>>

\* line i is a root key without a block, after `key: value` lines and blank lines
RootKeyHangs(ls, i) ==
    /\ IsHangingKey(ls[i], 0)
    /\ \A h \in 1..(i - 1) : ls[h] = <<>> \/ (IsKVLine(ls[h]) /\ IsPlain(ValueOfLine(ls[h])))
    /\ HasNoBlock(ls, i, 0)

\* line i is a key without a block inside the mapping nested under the key of
\* line 1, after `key: value` lines of that mapping
NestedKeyHangs(ls, i) ==
    /\ i >= 2
    /\ IsBlockKey(ls[1])
    /\ get_indent(ls[2]) > 0
    /\ \A h \in 2..(i - 1) : IsNestedKVLine(ls[h], get_indent(ls[2]))
    /\ IsHangingKey(ls[i], get_indent(ls[2]))
    /\ HasNoBlock(ls, i, get_indent(ls[2]))

\* line i is a lone dash of a root sequence, after plain items
DashHangs(ls, i) ==
    /\ ls[i] = <<"-">>
    /\ \A h \in 1..(i - 1) : IsItemLine(ls[h], 0)
    /\ HasNoBlock(ls, i, 0)

\* line i is the item `- key:` of a root sequence without a block, after plain
\* items and blank lines
ItemKeyHangs(ls, i) ==
    /\ IsMapHead(ls[i])
    /\ \A h \in 1..(i - 1) : IsItemLine(ls[h], 0)
    /\ HasNoBlock(ls, i, 0)

\* line i is a key without a block that continues the inline mapping of the item
\* `- key: value` on line i - 1
ContinuationKeyHangs(ls, i) ==
    /\ i >= 2
    /\ \A h \in 1..(i - 2) : IsItemLine(ls[h], 0)
    /\ IsSpaceIndented(ls[i - 1], 0)
    /\ ls[i - 1][1] = "-"
    /\ DashText(ls[i - 1], 0) # <<>>
    /\ DashText(ls[i - 1], 0)[1] \notin {"-", "[", "{"}
    /\ Find(DashText(ls[i - 1], 0), ":") # NPOS
    /\ IsPlain(ValueOfLine(DashText(ls[i - 1], 0)))
    /\ get_indent(ls[i]) > 0
    /\ IsHangingKey(ls[i], get_indent(ls[i]))
    /\ HasNoBlock(ls, i, get_indent(ls[i]))

\* parse() threw "Expected indented block" for `what` at the line of index n and
\* returned no value
NoBlockError(what, n, key) ==
    /\ pc = "error"
    /\ result = VNull
    /\ error = Err("Expected indented block for " \o what, n, key)

\* C11: a key (root, nested, first key of a sequence item, continuation key of a
\* sequence item) or a dash with an empty inline value whose next non-blank line
\* is absent or not strictly deeper than the parent makes parse() throw "Expected
\* indented block" for that key or item and return no value: neither null nor an
\* empty container is stored for it
C11_NoBlockFails ==
    Ended =>
        \A i \in 1..Len(lines) :
            /\ RootKeyHangs(lines, i) => NoBlockError("key", i - 1, KeyOfLine(lines[i]))
            /\ NestedKeyHangs(lines, i) => NoBlockError("key", i - 1, KeyOfLine(lines[i]))
            /\ DashHangs(lines, i) => NoBlockError("sequence item", i - 1, <<>>)
            /\ ItemKeyHangs(lines, i) => NoBlockError("key", i - 1, HeadKey(lines[i]))
            /\ ContinuationKeyHangs(lines, i) => NoBlockError("key", i - 1, KeyOfLine(lines[i]))

\* C11 happens: the nested key `a:` is followed by a line of its own indentation
C11_Witness ==
    /\ lines = <<<<"m", ":">>, <<" ", " ", "a", ":">>, <<" ", " ", "b", ":", " ", "1">>>>
    /\ NestedKeyHangs(lines, 2)
    /\ NoBlockError("key", 1, <<"a">>)

\* C12: when `key:` on the line with 0-based index k (lines[k + 1] here) has no
\* deeper block after it, the "Expected indented block" error carries the key's
\* 1-based line number k + 1
C12_KeyLineNumber ==
    Ended =>
        \A i \in 1..Len(lines) :
            RootKeyHangs(lines, i) \/ NestedKeyHangs(lines, i) =>
                /\ pc = "error"
                /\ error.k = "Expected indented block for key"
                /\ error.s = KeyOfLine(lines[i])
                /\ error.n = i

\* C12 fails: `key:` on the first line (k = 0, line number 1) followed by a line
\* at indentation 0 is reported "at line 0"
C12_Witness ==
    /\ lines = <<<<"k", "e", "y", ":">>, <<"o", "t", "h", "e", "r", ":", " ", "1">>>>
    /\ RootKeyHangs(lines, 1)
    /\ pc = "error"
    /\ error = Err("Expected indented block for key", 0, <<"k", "e", "y">>)

InvalidJson == {"Invalid JSON array syntax", "Invalid JSON object syntax"}

\* line i is `key: <bracket-delimited text>` at the root, after `key: value` lines
\* with plain values, and the JSON reader rejects the text
InlineLiteralRejected(ls, i) ==
    /\ IsKVLine(ls[i])
    /\ \A h \in 1..(i - 1) : ls[h] = <<>> \/ (IsKVLine(ls[h]) /\ IsPlain(ValueOfLine(ls[h])))
    /\ Bracketed(Trim(ValueOfLine(ls[i])), "[", "]") \/ Bracketed(Trim(ValueOfLine(ls[i])), "{", "}")
    /\ ~json_parse(Trim(ValueOfLine(ls[i]))).ok

\* the events of the log at which parse_value gave up a collected block that the
\* JSON reader rejected
Reverts == {j \in 1..Len(log) : log[j].e = "revert"}

\* the text try_collect_json_block collects from the lines of index from..(to - 1)
RECURSIVE BlockText(_, _, _)
BlockText(ls, from, to) ==
    IF from >= to THEN <<>>
    ELSE IF from + 1 = to THEN SubstrFrom(ls[from + 1], get_indent(ls[from + 1]))
    ELSE SubstrFrom(ls[from + 1], get_indent(ls[from + 1])) \o <<"\n">> \o BlockText(ls, from + 1, to)

\* a bracket-delimited inline scalar that the JSON reader rejects makes parse()
\* throw an error that names the text
InlineLiteralFails ==
    \A i \in 1..Len(lines) :
        InlineLiteralRejected(lines, i) =>
            /\ pc = "error"
            /\ result = VNull
            /\ error.k \in InvalidJson
            /\ error.s = Trim(ValueOfLine(lines[i]))

\* C13 (as the code has it): a bracket-delimited inline scalar rejected by the JSON
\* reader makes parse() throw "Invalid JSON array/object syntax: <text>"; a block
\* collected by try_collect_json_block in parse_value and rejected by the JSON
\* reader raises no error there: the cursor goes back to the first line of the
\* block and that line is re-read as a mapping when it holds a colon and as a
\* one-line scalar otherwise; an "Invalid JSON" error raised afterwards names a
\* one-line text
C13_RejectedBlockReread ==
    /\ Ended => InlineLiteralFails
    /\ \A j \in Reverts :
           /\ j > 1 /\ j < Len(log)
           /\ log[j - 1].e = "commit"
           /\ log[j - 1].c > log[j].c
           /\ log[j + 1] =
                  IF Find(lines[log[j].c + 1], ":") # NPOS
                  THEN Ev("call", "parse_mapping", log[j].c, log[j].n)
                  ELSE Ev("inc", "parse_value", log[j].c + 1, log[j].n)
           /\ error.k \in InvalidJson => Find(error.s, "\n") = NPOS

\* C13 happens: the block `{a: 1}` is collected, rejected and read as the mapping
\* with the key `{a`
C13_Witness ==
    /\ lines = <<<<"k", ":">>, <<" ", " ", "{", "a", ":", " ", "1", "}">>>>
    /\ Reverts # {}
    /\ pc = "done"
    /\ result = ObjSet(EmptyObj, <<"k">>, ObjSet(EmptyObj, <<"{", "a">>, VInt(1)))

\* C13 as stated: every text committed to as a JSON literal and rejected by the
\* JSON reader makes parse() throw an error that names the text; it is never
\* re-read as a mapping, a sequence or a plain string
C13_RejectedLiteralFails ==
    Ended =>
        /\ InlineLiteralFails
        /\ \A j \in Reverts :
               /\ pc = "error"
               /\ error.k \in InvalidJson
               /\ error.s = BlockText(lines, log[j].c, log[j - 1].c)

\* the document is the one line `key: <token>`
IsTokenDoc(ls) == Len(ls) = 1 /\ IsKVLine(ls[1])

\* the token of a one-line document and the value parse() returns for its key
TokenOf(ls) == ValueOfLine(ls[1])

TokenValue == Get(result, KeyOfLine(lines[1]))

BaseOfPrefix(c) == IF c \in {"x", "X"} THEN 16 ELSE IF c \in {"o", "O"} THEN 8 ELSE 2

\* a base prefix followed by one or more digits valid in that base
IsBaseToken(tok) ==
    /\ Len(tok) >= 3
    /\ tok[1] = "0"
    /\ tok[2] \in {"x", "X", "o", "O", "b", "B"}
    /\ \A i \in 3..Len(tok) : DigitVal(tok[i]) < BaseOfPrefix(tok[2])

\* the value of the digits ds read in `base`, most significant digit first
RECURSIVE PlaceValue(_, _, _)
PlaceValue(ds, base, acc) ==
    IF ds = <<>> THEN acc ELSE PlaceValue(Tail(ds), base, acc * base + DigitVal(ds[1]))

\* the digits, free of leading zeros, are at most 2^31 - 1 in `base`
AtMostIntMax(ds, base) ==
    IF base = 16 THEN Len(ds) < 8 \/ (Len(ds) = 8 /\ DigitVal(ds[1]) <= 7)
    ELSE IF base = 8 THEN Len(ds) < 11 \/ (Len(ds) = 11 /\ DigitVal(ds[1]) <= 1)
    ELSE Len(ds) <= 31

BaseDigits(tok) == StripZeros(SubstrFrom(tok, 2))

\* C14: for every token made of a base prefix (0x/0X, 0o/0O, 0b/0B) and one or
\* more digits valid in that base, the Scalar Resolver returns an integer, never
\* a string, whatever the magnitude; its value is the digits read in that base
C14_BasePrefixInteger ==
    Ended /\ IsTokenDoc(lines) /\ IsBaseToken(TokenOf(lines)) =>
        /\ pc = "done"
        /\ TokenValue.t \in {"int", "bigint"}
        /\ AtMostIntMax(BaseDigits(TokenOf(lines)), BaseOfPrefix(TokenOf(lines)[2])) =>
               TokenValue = IntValue(PlaceValue(BaseDigits(TokenOf(lines)),
                                                BaseOfPrefix(TokenOf(lines)[2]), 0))

\* C14 fails: 0x80000000 is 2^31, one above what std::stoi holds, and comes back
\* as the string "0x80000000"
C14_Witness ==
    /\ IsTokenDoc(lines)
    /\ TokenOf(lines) = <<"0", "x", "8", "0", "0", "0", "0", "0", "0", "0">>
    /\ IsBaseToken(TokenOf(lines))
    /\ pc = "done"
    /\ TokenValue = VStr(TokenOf(lines))

NullWords == {<<"n","u","l","l">>, <<"~">>, <<"N","u","l","l">>, <<"N","U","L","L">>}

TrueWords == {<<"t","r","u","e">>, <<"T","r","u","e">>, <<"T","R","U","E">>}

FalseWords == {<<"f","a","l","s","e">>, <<"F","a","l","s","e">>, <<"F","A","L","S","E">>}

\* the token is a text without backslashes between two double quotes or between
\* two single quotes
IsQuoted(tok) ==
    /\ Len(tok) >= 2
    /\ tok[1] \in {QUOTE, APOS}
    /\ tok[Len(tok)] = tok[1]
    /\ \A i \in 1..Len(tok) : tok[i] # BSLASH

Unquoted(tok) == SubSeq(tok, 2, Len(tok) - 1)

\* C15: unquoted null, ~, Null, NULL resolve to null, true/True/TRUE to true and
\* false/False/FALSE to false; the same spellings, and any numeric text, between
\* matching single or double quotes resolve to the string of the text between the
\* quotes
C15_KeywordsAndQuotes ==
    Ended /\ IsTokenDoc(lines) =>
        /\ TokenOf(lines) \in NullWords => pc = "done" /\ TokenValue = VNull
        /\ TokenOf(lines) \in TrueWords => pc = "done" /\ TokenValue = VBool(TRUE)
        /\ TokenOf(lines) \in FalseWords => pc = "done" /\ TokenValue = VBool(FALSE)
        /\ IsQuoted(TokenOf(lines)) =>
               pc = "done" /\ TokenValue = VStr(Unquoted(TokenOf(lines)))

\* C15 happens: the double-quoted "null" is the string null, not the null value
C15_Witness ==
    /\ IsTokenDoc(lines)
    /\ TokenOf(lines) = <<QUOTE, "n", "u", "l", "l", QUOTE>>
    /\ pc = "done"
    /\ TokenValue = VStr(<<"n", "u", "l", "l">>)

\* the token is bracket-delimited: `[...]` or `{...}`
IsBracketDelimited(tok) == Bracketed(tok, "[", "]") \/ Bracketed(tok, "{", "}")

\* the token is no quoted text, no keyword and no special float spelling, so
\* parse_scalar hands it to its numeric conversions
IsNumberCandidate(tok) ==
    /\ ~IsBracketDelimited(tok)
    /\ ~(tok[1] = QUOTE /\ tok[Len(tok)] = QUOTE)
    /\ ~(tok[1] = APOS /\ tok[Len(tok)] = APOS)
    /\ tok \notin NullWords \cup TrueWords \cup FalseWords
    /\ tok \notin {<<".","i","n","f">>, <<".","I","n","f">>, <<".","I","N","F">>,
                   <<"+",".","i","n","f">>, <<"-",".","i","n","f">>, <<"-",".","I","n","f">>,
                   <<"-",".","I","N","F">>, <<".","n","a","n">>, <<".","N","a","N">>,
                   <<".","N","A","N">>}

\* C16: the Scalar Resolver never raises for a token that is not bracket-delimited;
\* when none of its numeric conversions accepts the token it returns the trimmed
\* text itself as a string, and the number otherwise
C16_ScalarNeverRaises ==
    Ended /\ IsKVDoc(lines) =>
        \A i \in 1..Len(lines) :
            ~IsBracketDelimited(ValueOfLine(lines[i])) =>
                /\ ~Failed(parse_scalar(ValueOfLine(lines[i])))
                /\ (\A h \in 1..Len(lines) : ~IsBracketDelimited(ValueOfLine(lines[h]))) =>
                       /\ pc = "done"
                       /\ HasKey(result, KeyOfLine(lines[i]))
                       /\ IsNumberCandidate(ValueOfLine(lines[i])) =>
                              Get(result, KeyOfLine(lines[i])) =
                                  IF ScalarNumber(ValueOfLine(lines[i])).ok
                                  THEN ScalarNumber(ValueOfLine(lines[i])).v
                                  ELSE VStr(ValueOfLine(lines[i]))

\* C16 happens: no conversion accepts `0o8` (8 is no octal digit) and the token
\* comes back as the string 0o8
C16_Witness ==
    /\ IsTokenDoc(lines)
    /\ TokenOf(lines) = <<"0", "o", "8">>
    /\ IsNumberCandidate(TokenOf(lines))
    /\ ~ScalarNumber(TokenOf(lines)).ok
    /\ pc = "done"
    /\ TokenValue = VStr(<<"0", "o", "8">>)

\* C17: preprocessing (cut at the first '#', erase trailing spaces, tabs, carriage
\* returns and line feeds) is idempotent: applied to the line table it built, it
\* yields the same line table
C17_PreprocessIdempotent ==
    pc # "new" =>
        /\ lines = preprocess_input(input)
        /\ preprocess_input(lines) = lines

\* C17 happens: a line with a comment and blanks around it was cut and trimmed,
\* and the line table differs from the input
C17_Witness ==
    /\ input = <<<<"a", ":", " ", "1", " ", "\t", "#", " ", "c", " ", "\t">>>>
    /\ pc = "ready"
    /\ lines = <<<<"a", ":", " ", "1">>>>
    /\ lines # input
    /\ preprocess_input(lines) = lines

\* the events of the log (their indices) that are calls of parse_value,
\* parse_sequence and parse_mapping still open after event j, outermost first
RECURSIVE OpenCallEvents(_)
OpenCallEvents(j) ==
    IF j = 0 THEN <<>>
    ELSE IF log[j].e = "call" THEN Append(OpenCallEvents(j - 1), j)
    ELSE IF log[j].e = "ret"
    THEN SubSeq(OpenCallEvents(j - 1), 1, Len(OpenCallEvents(j - 1)) - 1)
    ELSE OpenCallEvents(j - 1)

\* the indentations these calls were made with
OpenCalls(j) == [k \in 1..Len(OpenCallEvents(j)) |-> log[OpenCallEvents(j)[k]].n]

\* the lines (1-based) that event j of the log consumes: one line for an increment
\* of the cursor, the lines of the block for a committed JSON block
ConsumedAt(j) ==
    IF log[j].e \in {"inc", "pv_deeper"} THEN {log[j].c}
    ELSE IF log[j].e = "commit" THEN (log[j - 1].c + 1)..log[j].c
    ELSE {}

\* every non-blank line consumed inside a call made with indentation n has
\* indentation >= n
ConsumedAtLeastIndent ==
    \A j \in 1..Len(log) :
        \A i \in ConsumedAt(j) :
            lines[i] # <<>> =>
                /\ get_indent(lines[i]) >= log[j].n
                /\ \A k \in 1..Len(OpenCalls(j)) : get_indent(lines[i]) >= OpenCalls(j)[k]

AtEnd(c) == c >= Len(lines)

\* the cursor c is on a non-blank line
OnLine(c) == c < Len(lines) /\ lines[c + 1] # <<>>

\* the line at the cursor does not go on a sequence / a mapping at indentation n
StopsSequence(c, n) ==
    get_indent(lines[c + 1]) # n \/ Index(Parser(lines, oob), lines[c + 1], n) # "-"

StopsMapping(c, n) == get_indent(lines[c + 1]) # n \/ Find(lines[c + 1], ":") = NPOS

\* the returns of parse_sequence, parse_mapping and parse_value in the log
Returns(f) == {j \in 1..Len(log) : log[j].e = "ret" /\ log[j].f = f}

\* parse_sequence and parse_mapping return at the end of the input or on a
\* non-blank line that does not go on their block
BlockEndsWhereItStops ==
    /\ \A j \in Returns("parse_sequence") :
           AtEnd(log[j].c) \/ (OnLine(log[j].c) /\ StopsSequence(log[j].c, log[j].n))
    /\ \A j \in Returns("parse_mapping") :
           AtEnd(log[j].c) \/ (OnLine(log[j].c) /\ StopsMapping(log[j].c, log[j].n))

\* parse_value returns at the end of the input, on a shallower non-blank line,
\* where the sequence or mapping it dispatched to returned, or right after the
\* scalar line or the JSON block it consumed
ValueEndsAfterItsBlock ==
    \A j \in Returns("parse_value") :
        /\ j > 1
        /\ log[j - 1].c = log[j].c
        /\ log[j - 1].n = log[j].n
        /\ \/ log[j - 1].e = "pv_eof" /\ AtEnd(log[j].c)
           \/ /\ log[j - 1].e = "pv_shallow"
              /\ OnLine(log[j].c)
              /\ get_indent(lines[log[j].c + 1]) < log[j].n
           \/ log[j - 1].e = "ret" /\ log[j - 1].f \in {"parse_sequence", "parse_mapping"}
           \/ /\ log[j - 1].e = "inc" /\ log[j - 1].f = "parse_value"
              /\ lines[log[j].c] # <<>>
              /\ get_indent(lines[log[j].c]) = log[j].n
           \/ log[j - 1].e = "commit"

\* C18 (as the code has it): in every call parse_mapping(n), parse_sequence(n),
\* parse_value(n) each non-blank line consumed has indentation >= n;
\* parse_sequence(n) and parse_mapping(n) return with the cursor at the end of the
\* input or on a non-blank line that has another indentation than n or is no dash
\* item / holds no colon; parse_value(n) returns at the end of the input, on a
\* non-blank line shallower than n, where the sequence or mapping it called
\* returned, or on the line right after the scalar line or JSON block it consumed,
\* blank or not and of any indentation
C18_BlockBounds ==
    /\ ConsumedAtLeastIndent
    /\ BlockEndsWhereItStops
    /\ ValueEndsAfterItsBlock

\* C18 happens: parse_value(2) consumed the scalar line `  x` and returned with
\* the cursor on the blank line after it
C18_Witness ==
    /\ lines = <<<<"k", ":">>, <<" ", " ", "x">>, <<>>, <<"z", ":", " ", "1">>>>
    /\ pc = "done"
    /\ \E j \in Returns("parse_value") :
           /\ log[j].n = 2 /\ log[j].c = 2
           /\ log[j - 1] = Ev("inc", "parse_value", 2, 2)
           /\ lines[log[j].c + 1] = <<>>

\* C18 as stated: each non-blank line consumed in a call with indentation n has
\* indentation >= n, and every one of the three functions returns with the cursor
\* at the end of the input or on a non-blank line that is shallower than n or
\* does not match the block
C18_CursorAtBlockEnd ==
    /\ ConsumedAtLeastIndent
    /\ BlockEndsWhereItStops
    /\ \A j \in Returns("parse_value") :
           AtEnd(log[j].c) \/ (OnLine(log[j].c) /\ get_indent(lines[log[j].c + 1]) # log[j].n)

\* C19: whenever parse() returns normally the root value is an array (the root
\* sequence) or an object (root itself, possibly empty), never a scalar or null,
\* also for a document that is one plain scalar line or a JSON literal at the root
C19_RootIsContainer ==
    pc = "done" =>
        /\ result.t \in {"arr", "obj"}
        /\ result.t = "obj" => result = root
        /\ result.t = "arr" => root = EmptyObj

\* C19 happens: the root-level literal `[1, 2]` holds no colon and starts with no
\* dash, the line is skipped and parse() returns the empty object
C19_Witness ==
    /\ lines = <<<<"[", "1", ",", " ", "2", "]">>>>
    /\ pc = "done"
    /\ result = EmptyObj

\* one iteration of the root loop advances current_line or leaves the loop
RootLoopAdvances ==
    pc = "loop" => current_line' > current_line \/ pc' \in {"done", "error"}

\* the cursor never goes back, except where parse_value gives up a collected JSON
\* block, and then to the first line of that block
CursorAdvances ==
    \A j \in 1..(Len(log) - 1) :
        \/ log[j + 1].c >= log[j].c
        \/ log[j + 1].e = "revert" /\ log[j].e = "commit" /\ j > 1 /\ log[j + 1].c = log[j - 1].c

\* a call that re-enters a function with an open call is made at a cursor past
\* the one of the open call, and every call of parse_value follows the increment
\* of the cursor past the line of its key or dash
RecursionAdvances ==
    \A j \in 1..Len(log) :
        log[j].e = "call" =>
            /\ \A k \in 1..Len(OpenCallEvents(j - 1)) :
                   log[OpenCallEvents(j - 1)[k]].f = log[j].f =>
                       log[j].c > log[OpenCallEvents(j - 1)[k]].c
            /\ log[j].f = "parse_value" =>
                   /\ j > 1
                   /\ log[j - 1].e = "inc"
                   /\ log[j - 1].c = log[j].c
                   /\ log[j - 1].f # "parse_value"

\* the number of steps parse_yaml has left at most: one for the constructor, one
\* for the entry of parse(), one for each line from the cursor on, one for the
\* return
StepsLeft ==
    IF pc = "new" THEN Len(input) + 3
    ELSE IF pc = "ready" THEN Len(lines) + 2
    ELSE IF pc = "loop" THEN (Len(lines) - current_line) + 1
    ELSE 0

\* C20: parse() terminates on every line table: every step of the constructor and
\* of parse() lowers StepsLeft, a natural number that is 0 once parse() returned
\* or threw; every iteration of the root loop advances the cursor or leaves the
\* loop; inside the nested functions the cursor only advances (but for the revert
\* of a rejected JSON block), and every recursive call is made after the cursor
\* advanced past at least one line
C20_ParseTerminates ==
    /\ [][StepsLeft' < StepsLeft /\ RootLoopAdvances]_vars
    /\ [](StepsLeft \in Nat /\ (Ended <=> StepsLeft = 0))
    /\ [](CursorAdvances /\ RecursionAdvances)

\* C20 happens: parse() has returned after parse_sequence re-entered itself
\* through parse_value, at a cursor past the one of the outer call
C20_Witness ==
    /\ pc = "done"
    /\ \E j \in 1..Len(log) :
           /\ log[j].e = "call" /\ log[j].f = "parse_sequence"
           /\ \E k \in 1..Len(OpenCallEvents(j - 1)) :
                  /\ log[OpenCallEvents(j - 1)[k]].f = "parse_sequence"
                  /\ log[OpenCallEvents(j - 1)[k]].c < log[j].c

\* the indentations of the lines of the table
IndentsOf(ls) == {get_indent(ls[k]) : k \in 1..Len(ls)}

\* try_collect_json_block returned false (tc) on a call at the cursor i with the
\* log lg: the cursor is i again, out_json holds nothing, and nothing but the
\* restore was logged
FalseLeavesNoEffect(tc, i, n, lg) ==
    (~tc.ok /\ ~Failed(tc)) =>
        /\ tc.cur = i
        /\ tc.text = <<>>
        /\ tc.log = Append(lg, Ev("restore", "try_collect_json_block", i, n))

\* try_collect_json_block called at any line of the table, with the indentation of
\* any line of the table
CollectFailureRestores ==
    \A i \in 0..Len(lines) : \A n \in IndentsOf(lines) :
        FalseLeavesNoEffect(try_collect_json_block(Self, i, n, <<>>), i, n, <<>>)

\* event j - 1 is parse_value at the line it is about to try as JSON
AttemptStartsAfter(j) ==
    /\ j >= 1
    /\ log[j].f = "parse_value"
    /\ log[j].e \in {"call", "inc"}
    /\ OnLine(log[j].c)
    /\ get_indent(lines[log[j].c + 1]) = log[j].n

\* event j applies a structural rule (sequence, mapping, scalar) to the line c in
\* the call of parse_value with indentation n
StructuralRuleAt(j, c, n) ==
    /\ j <= Len(log)
    /\ log[j] \in {Ev("call", "parse_sequence", c, n), Ev("call", "parse_mapping", c, n),
                   Ev("inc", "parse_value", c + 1, n)}

\* C21: speculative JSON detection leaves no partial effect: when
\* try_collect_json_block returns false the cursor is where it was at entry and
\* the out text holds nothing; when parse_value's attempt collected a block that
\* the JSON reader rejects, the cursor is set back to the line where the attempt
\* started, and the sequence, mapping or scalar rule is applied to that line next
C21_AttemptLeavesNoEffect ==
    /\ pc # "new" => CollectFailureRestores
    /\ \A j \in 1..Len(log) :
           /\ log[j].e = "restore" =>
                  /\ AttemptStartsAfter(j - 1)
                  /\ log[j].c = log[j - 1].c
                  /\ log[j].n = log[j - 1].n
                  /\ StructuralRuleAt(j + 1, log[j].c, log[j].n)
           /\ log[j].e = "revert" =>
                  /\ j > 2
                  /\ log[j - 1].e = "commit"
                  /\ AttemptStartsAfter(j - 2)
                  /\ log[j].c = log[j - 2].c
                  /\ log[j].n = log[j - 2].n
                  /\ StructuralRuleAt(j + 1, log[j].c, log[j].n)

\* C21 happens: `{x: 1}` was collected, rejected and re-read from its line, and
\* the block `[1,` that never closes was given up with the cursor back on it
C21_Witness ==
    /\ lines = <<<<"a", ":">>, <<" ", " ", "{", "x", ":", " ", "1", "}">>,
                 <<"b", ":">>, <<" ", " ", "[", "1", ",">>>>
    /\ pc = "done"
    /\ \E j \in 1..Len(log) : log[j].e = "revert" /\ log[j].c = 1 /\ log[j - 1].c = 2
    /\ \E j \in 1..Len(log) : log[j].e = "restore" /\ log[j].c = 3
    /\ result = ObjSet(ObjSet(EmptyObj, <<"a">>, ObjSet(EmptyObj, <<"{", "x">>, VInt(1))),
                       <<"b">>, VStr(<<"[", "1", ",">>))

\* the positions of text from k on that lie outside quoted spans, the quote marks
\* excluded; q is the mark of the span open at k (NUL when none), esc says that
\* the character at k follows a backslash inside the span
RECURSIVE OutsideQuotes(_, _, _, _)
OutsideQuotes(text, k, q, esc) ==
    IF k > Len(text) THEN {}
    ELSE IF q = NUL
    THEN IF text[k] \in {QUOTE, APOS} THEN OutsideQuotes(text, k + 1, text[k], FALSE)
         ELSE {k} \cup OutsideQuotes(text, k + 1, NUL, FALSE)
    ELSE IF esc THEN OutsideQuotes(text, k + 1, q, FALSE)
    ELSE IF text[k] = BSLASH THEN OutsideQuotes(text, k + 1, q, TRUE)
    ELSE OutsideQuotes(text, k + 1, IF text[k] = q THEN NUL ELSE q, FALSE)

\* how many of the positions in `at` hold the character c
CountOf(text, at, c) == Cardinality({k \in at : text[k] = c})

\* the openers of text outside quoted spans are all matched: no more `{` than
\* `}` and no more `[` than `]`
ClosedAt(text, at) ==
    /\ CountOf(text, at, "{") <= CountOf(text, at, "}")
    /\ CountOf(text, at, "[") <= CountOf(text, at, "]")

Closed(text) == ClosedAt(text, OutsideQuotes(text, 1, NUL, FALSE))

\* the contents (indentation stripped) of the lines of index from..(to - 1), one
\* after the other
RECURSIVE ContentsOf(_, _, _)
ContentsOf(ls, from, to) ==
    IF from >= to THEN <<>>
    ELSE SubstrFrom(ls[from + 1], get_indent(ls[from + 1])) \o ContentsOf(ls, from + 1, to)

\* line i (0-based) of ls is at the indentation n and begins with `{` or `[`
StartsJsonBlock(ls, i, n) ==
    /\ i < Len(ls)
    /\ get_indent(ls[i + 1]) = n
    /\ n < Len(ls[i + 1])
    /\ ls[i + 1][n + 1] \in {"{", "["}

\* e is the index just after the first line, from line i on, after which the
\* brackets and braces of the lines read so far are closed
FirstClosedAfter(ls, i, e) ==
    /\ e > i /\ e <= Len(ls)
    /\ Closed(ContentsOf(ls, i, e))
    /\ \A m \in (i + 1)..(e - 1) : ~Closed(ContentsOf(ls, i, m))

\* the successful result tc of try_collect_json_block called at line i
CollectedBlock(tc, ls, i) ==
    tc.ok =>
        /\ FirstClosedAfter(ls, i, tc.cur)
        /\ tc.text = BlockText(ls, i, tc.cur)
        /\ tc.log = <<Ev("commit", "try_collect_json_block", tc.cur, get_indent(ls[i + 1]))>>

\* C22: when try_collect_json_block succeeds from a line at the expected
\* indentation that begins with `{` or `[`, it stops after the first consumed line
\* at whose end neither the brace nor the bracket counter is positive (brackets in
\* single- or double-quoted spans, backslash escapes honoured, are not counted),
\* the cursor is the index just after that line, and the text returned is the
\* consumed lines' contents without their indentation, joined by newlines
C22_CollectStopsWhenClosed ==
    /\ \A i \in 0..(Len(lines) - 1) :
           StartsJsonBlock(lines, i, get_indent(lines[i + 1])) =>
               CollectedBlock(try_collect_json_block(Self, i, get_indent(lines[i + 1]), <<>>),
                              lines, i)
    /\ \A j \in 2..Len(log) :
           log[j].e = "commit" =>
               /\ AttemptStartsAfter(j - 1)
               /\ StartsJsonBlock(lines, log[j - 1].c, log[j].n)
               /\ FirstClosedAfter(lines, log[j - 1].c, log[j].c)
               /\ j < Len(log)
               /\ log[j + 1].c \in {log[j].c, log[j - 1].c}

\* C22 happens: the first line of the block holds `}` inside a quoted span, so the
\* block ends with its second line, and the JSON reader gets both lines
C22_Witness ==
    /\ lines = <<<<"k", ":">>, <<" ", " ", "{", "\"", "a", "\"", ":", " ", "\"", "}", "\"", ",">>,
                 <<" ", " ", "\"", "b", "\"", ":", " ", "2", "}">>>>
    /\ pc = "done"
    /\ \E j \in 2..Len(log) : log[j].e = "commit" /\ log[j - 1].c = 1 /\ log[j].c = 3
    /\ result = ObjSet(EmptyObj, <<"k">>,
                       ObjSet(ObjSet(EmptyObj, <<"a">>, VStr(<<"}">>)), <<"b">>, VInt(2)))

\* the call event that the return event j answers
CallOf(j) == OpenCallEvents(j - 1)[Len(OpenCallEvents(j - 1))]

\* every normal return of parse_value, parse_sequence and parse_mapping answers
\* the innermost open call of that function and has a cursor at or after the one
\* the call was entered with
ReturnsAtOrAfterEntry ==
    \A j \in 1..Len(log) :
        log[j].e = "ret" =>
            /\ OpenCallEvents(j - 1) # <<>>
            /\ log[CallOf(j)].f = log[j].f
            /\ log[CallOf(j)].n = log[j].n
            /\ log[j].c >= log[CallOf(j)].c

\* every return of try_collect_json_block, true (commit) or false (restore), has
\* a cursor at or after the one it was entered with
CollectEndsAtOrAfterEntry ==
    \A j \in 1..Len(log) :
        log[j].f = "try_collect_json_block" =>
            /\ j > 1
            /\ log[j - 1].f = "parse_value"
            /\ log[j].c >= log[j - 1].c

\* the cursor steps back at event j
StepsBack(j) == j > 1 /\ log[j].c < log[j - 1].c

\* C23: during one parse current_line never decreases from one step to the next,
\* except where parse_value rolls a collected JSON block back to the saved start
\* of the attempt; so parse_value, parse_sequence, parse_mapping and
\* try_collect_json_block return with a cursor at or after the one at their entry
C23_CursorMonotone ==
    /\ [][current_line' >= current_line]_vars
    /\ [](\A j \in 1..Len(log) :
              StepsBack(j) =>
                  /\ log[j].e = "revert"
                  /\ log[j - 1].e = "commit"
                  /\ log[j].c = log[j - 2].c)
    /\ [](ReturnsAtOrAfterEntry /\ CollectEndsAtOrAfterEntry)

\* C23 happens: the two lines of `['a]',` / `1]` were collected and rejected, the
\* cursor stepped back from 3 to 1, and parse_value returned at 2, after its entry
C23_Witness ==
    /\ lines = <<<<"k", ":">>, <<" ", " ", "[", "'", "a", "]", "'", ",">>, <<" ", " ", "1", "]">>>>
    /\ pc = "done"
    /\ \E j \in 3..Len(log) :
           /\ StepsBack(j) /\ log[j - 1].c = 3 /\ log[j].c = 1
           /\ \E h \in (j + 1)..Len(log) :
                  /\ log[h] = Ev("ret", "parse_value", 2, 2)
                  /\ log[CallOf(h)] = Ev("call", "parse_value", 1, 2)

\* the head `- k: v` of an inline mapping item at column 0, v a plain scalar
IsInlineMapHead(line) ==
    /\ IsSpaceIndented(line, 0)
    /\ line[1] = "-"
    /\ DashText(line, 0) # <<>>
    /\ DashText(line, 0)[1] \notin {"-", "[", "{"}
    /\ Find(DashText(line, 0), ":") # NPOS
    /\ IsPlain(ValueOfLine(DashText(line, 0)))

\* lines 2..(m - 1) of ls are dash items at one deeper indentation, at least one,
\* under the head `- - a` of line 1, and line m is a dash item at another deeper
\* indentation
SeqShiftAt(ls, m) ==
    /\ m >= 3 /\ m <= Len(ls)
    /\ IsSeqHead(ls[1])
    /\ get_indent(ls[2]) > 0
    /\ \A i \in 2..(m - 1) : IsItemLine(ls[i], get_indent(ls[2]))
    /\ get_indent(ls[m]) > 0
    /\ get_indent(ls[m]) # get_indent(ls[2])
    /\ IsItemLine(ls[m], get_indent(ls[m]))

\* lines 2..(m - 1) of ls are `key: value` lines at one deeper indentation, at
\* least one, under the head `- k: v` of line 1, and line m is a `key: value`
\* line at another deeper indentation
MapShiftAt(ls, m) ==
    /\ m >= 3 /\ m <= Len(ls)
    /\ IsInlineMapHead(ls[1])
    /\ get_indent(ls[2]) > 0
    /\ \A i \in 2..(m - 1) : IsNestedKVLine(ls[i], get_indent(ls[2]))
    /\ get_indent(ls[m]) > 0
    /\ get_indent(ls[m]) # get_indent(ls[2])
    /\ IsNestedKVLine(ls[m], get_indent(ls[m]))

\* the object of the head `- k: v` and of the lines 2..(m - 1) below it
ShiftedObject(ls, m) ==
    ObjectOfLines(SubSeq(ls, 2, m - 1), 1,
                  ObjSet(EmptyObj, KeyOfLine(DashText(ls[1], 0)),
                         parse_scalar(ValueOfLine(DashText(ls[1], 0))).v))

InconsistentIndentation == "Inconsistent indentation in nested sequence continuation"

\* C24: continuation lines are handled asymmetrically.  Under an inline
\* multi-dash item a dash line at a deeper indentation other than that of the
\* first continuation line makes parse() throw "Inconsistent indentation ..." at
\* that line; under an inline mapping item a `key: value` line at a deeper
\* indentation other than that of the first continuation line raises no error:
\* the object ends before it and the cursor stays on that line
C24_ContinuationShift ==
    Ended =>
        \A m \in 1..Len(lines) :
            /\ SeqShiftAt(lines, m) =>
                   /\ pc = "error"
                   /\ error = Err(InconsistentIndentation, m - 1, <<>>)
                   /\ current_line = m - 1
            /\ MapShiftAt(lines, m) =>
                   /\ pc = "done"
                   /\ error = NoErr
                   /\ result = VArr(<<ShiftedObject(lines, m)>>)
                   /\ ~HasKey(result.v[1], KeyOfLine(lines[m]))
                   /\ current_line = m - 1

\* C24 happens, sequence side: `- c` is deeper than `- b`, and parse() threw at it
C24_Witness ==
    /\ lines = <<<<"-", " ", "-", " ", "a">>, <<" ", " ", "-", " ", "b">>,
                 <<" ", " ", " ", " ", "-", " ", "c">>>>
    /\ SeqShiftAt(lines, 3)
    /\ pc = "error"
    /\ error.k = InconsistentIndentation

\* C24 happens, mapping side: `c: 3` is deeper than `b: 2`; the object ended
\* before it and parse() returned with the cursor on it
C24_WitnessMapping ==
    /\ lines = <<<<"-", " ", "a", ":", " ", "1">>, <<" ", " ", "b", ":", " ", "2">>,
                 <<" ", " ", " ", " ", "c", ":", " ", "3">>>>
    /\ MapShiftAt(lines, 3)
    /\ pc = "done"
    /\ current_line = 2
    /\ result = VArr(<<ObjSet(ObjSet(EmptyObj, <<"a">>, VInt(1)), <<"b">>, VInt(2))>>)

FailedToParseBlock ==
    {"Failed to parse block for key", "Failed to parse block for sequence item"}

\* C25 (as stated): the error "Failed to parse block ..." is unreachable: when
\* get_next_sub_indent finds a deeper block below a key or a dash with an empty
\* inline value, parse_value returns a non-null value for that block, whatever
\* the block holds
C25_FailedToParseUnreachable == error.k \notin FailedToParseBlock

\* C25 fails: the block below `k:` is the line `~`, parse_value read it as a scalar
\* and returned null, and parse() threw "Failed to parse block for key 'k'"
C25_Witness ==
    /\ lines = <<<<"k", ":">>, <<" ", " ", "~">>>>
    /\ get_next_sub_indent(Self, 1, 0) = 2
    /\ parse_value(Self, 1, 2, <<>>).v = VNull
    /\ pc = "error"
    /\ error = Err("Failed to parse block for key", 1, <<"k">>)

\* the line table without its line i
Without(ls, i) == SubSeq(ls, 1, i - 1) \o SubSeq(ls, i + 1, Len(ls))

\* a stray line: not blank, no colon, space-indented, and its text starts with
\* none of `-`, `[`, `{`
IsStrayLine(line) ==
    /\ line # <<>>
    /\ Find(line, ":") = NPOS
    /\ IsSpaceIndented(line, get_indent(line))
    /\ line[get_indent(line) + 1] \notin {"-", "[", "{"}

\* line i is a stray line at column 0 of a document whose root is a mapping
StrayAtRoot(ls, i) ==
    /\ IsStrayLine(ls[i])
    /\ get_indent(ls[i]) = 0
    /\ \A h \in 1..Len(ls) : ls[h] = <<>> \/ ls[h][1] # "-"

\* line i is a stray line between two entries of a nested mapping, deeper than
\* the entries
StrayInNestedMapping(ls, i) ==
    /\ i > 1 /\ i < Len(ls)
    /\ IsStrayLine(ls[i])
    /\ get_indent(ls[i - 1]) > 0
    /\ IsNestedKVLine(ls[i - 1], get_indent(ls[i - 1]))
    /\ IsNestedKVLine(ls[i + 1], get_indent(ls[i - 1]))
    /\ get_indent(ls[i]) > get_indent(ls[i - 1])

\* parse() of the line table ls
ParseOf(ls) == parse(Parser(ls, oob))

\* the parse of the line table ended as the parse of the table without line i
SameAsWithout(i) ==
    ParseOf(Without(lines, i)).pc = "done" =>
        /\ pc = "done"
        /\ result = ParseOf(Without(lines, i)).result

\* a stray line at column 0 of a root mapping changes nothing
RootStraySkipped ==
    Ended => \A i \in 1..Len(lines) : StrayAtRoot(lines, i) => SameAsWithout(i)

\* C26 (as stated): a stray line (not blank, no colon, not starting with `-`, `[`
\* or `{`), at the root or between two entries of a nested mapping and deeper than
\* they are, is silently skipped: parse() raises no error and returns the value
\* it returns for the document without that line
C26_StrayLineSkipped ==
    Ended =>
        \A i \in 1..Len(lines) :
            (StrayAtRoot(lines, i) \/ StrayInNestedMapping(lines, i)) => SameAsWithout(i)

\* C26 fails: the stray line between `a: 1` and `b: 2` ended the mapping of `k`,
\* and `b: 2` became an entry of the root; without the line, b is an entry of k
C26_Witness ==
    /\ lines = <<<<"k", ":">>, <<" ", " ", "a", ":", " ", "1">>,
                 <<" ", " ", " ", " ", " ", " ", "s", "t", "r", "a", "y">>,
                 <<" ", " ", "b", ":", " ", "2">>>>
    /\ StrayInNestedMapping(lines, 3)
    /\ pc = "done"
    /\ result = ObjSet(ObjSet(EmptyObj, <<"k">>, ObjSet(EmptyObj, <<"a">>, VInt(1))),
                       <<"b">>, VInt(2))
    /\ ParseOf(Without(lines, 3)).result =
           ObjSet(EmptyObj, <<"k">>, ObjSet(ObjSet(EmptyObj, <<"a">>, VInt(1)), <<"b">>, VInt(2)))

\* the lines (1-based) of ls that hold a colon and start with no dash
EntryLines(ls) ==
    {i \in 1..Len(ls) : ls[i] # <<>> /\ ls[i][1] # "-" /\ Find(ls[i], ":") # NPOS}

\* the indentation of the first entry the root loop stores
RootIndent(ls) == get_indent(ls[Least(EntryLines(ls))])

\* the key is the key of a line read so far that has the indentation of the first
\* root entry
FromRootLine(key) ==
    \E i \in EntryLines(lines) :
        /\ i <= current_line
        /\ KeyOfLine(lines[i]) = key
        /\ get_indent(lines[i]) = RootIndent(lines)

\* C27 (as stated): every entry of the root mapping comes from a line at one and
\* the same indentation, that of the first root entry; a `key: value` line deeper
\* than the root entries, left unconsumed by a nested block that ended early, is
\* never stored as a key of the root object
C27_RootEntriesOneIndent ==
    (pc \in {"loop", "done"} /\ root.t = "obj") =>
        \A k \in 1..Len(KeysOf(root.v)) : FromRootLine(KeysOf(root.v)[k])

\* C27 fails: the mapping of `k` ended before `b: 2`, which is deeper than `a: 1`,
\* and the root loop stored b, from a line of indentation 6, next to k and z
C27_Witness ==
    /\ lines = <<<<"k", ":">>, <<" ", " ", "a", ":", " ", "1">>,
                 <<" ", " ", " ", " ", " ", " ", "b", ":", " ", "2">>, <<"z", ":", " ", "1">>>>
    /\ RootIndent(lines) = 0
    /\ pc = "done"
    /\ Get(result, <<"k">>) = ObjSet(EmptyObj, <<"a">>, VInt(1))
    /\ Get(result, <<"b">>) = VInt(2)
    /\ Get(result, <<"z">>) = VInt(1)
    /\ ~FromRootLine(<<"b">>)

\* the cursor is an index of the line table or the index just past it
CursorInTable == pc # "new" => current_line \in 0..Len(lines)

\* the indentation get_indent counts for every non-empty line is at most the
\* line's length, so line[indent] and line.substr(indent) stay inside the line
IndentInsideLine ==
    \A i \in 1..Len(lines) : lines[i] # <<>> => get_indent(lines[i]) <= Len(lines[i])

\* C28 (as stated): in every reachable state of a parse 0 <= current_line <=
\* number of lines, and every index or offset derived from get_indent is at most
\* the length of its line, for every preprocessed non-empty line, tab-indented
\* lines included; no access is out of range and no std::out_of_range is thrown
C28_IndicesInRange ==
    /\ CursorInTable
    /\ IndentInsideLine
    /\ error # OutOfRange

\* C28 fails: the line of two tabs and `x` has length 3 and indentation 4;
\* parse_value(4) took line.substr(4) of it and std::out_of_range came out of
\* parse()
C28_Witness ==
    /\ lines = <<<<"k", ":">>, <<"\t", "\t", "x">>>>
    /\ get_indent(lines[2]) = 4 /\ Len(lines[2]) = 3
    /\ CursorInTable
    /\ pc = "error"
    /\ error = OutOfRange

\* event j is a call of parse_value
IsValueCall(j) == log[j].e = "call" /\ log[j].f = "parse_value"

\* the first non-blank line at or after the cursor c (0-based), as a 1-based index
BlockLine(c) == NextNonBlank(lines, c)

\* the call of event j passes the indentation of the first non-blank line at or
\* after the cursor, which is what get_next_sub_indent yields from that cursor
CalledAtBlockIndent(j) ==
    /\ BlockLine(log[j].c) # 0
    /\ get_indent(lines[BlockLine(log[j].c)]) = log[j].n
    /\ log[j].n > 0
    /\ get_next_sub_indent(Self, log[j].c, log[j].n - 1) = log[j].n

\* the first line of the block is a scalar line whose text is a null keyword
StartsWithNullScalar(c, n) ==
    /\ Find(lines[BlockLine(c)], ":") = NPOS
    /\ Index(Self, lines[BlockLine(c)], n) # "-"
    /\ Trim(SubstrFrom(lines[BlockLine(c)], n)) \in NullWords

\* what the call of event j returns: null only for a block that starts with a
\* null scalar
NullOnlyForNullScalar(r, c, n) ==
    (~Failed(r) /\ r.v = VNull) => StartsWithNullScalar(c, n)

\* C29: every call of parse_value passes the indentation of the first non-blank
\* line at or after the cursor, the value get_next_sub_indent just returned from
\* that cursor; so parse_value never takes its branches "line shallower than
\* expected", "line deeper than expected" and "end of input", and it returns null
\* only when the first line of the block is a scalar that resolves to null
C29_ValueCalledAtBlockIndent ==
    \A j \in 1..Len(log) :
        /\ log[j].e \notin {"pv_eof", "pv_shallow", "pv_deeper"}
        /\ IsValueCall(j) =>
               /\ CalledAtBlockIndent(j)
               /\ NullOnlyForNullScalar(parse_value(Self, log[j].c, log[j].n, <<>>),
                                        log[j].c, log[j].n)
        /\ (j = Len(log) /\ error.k \in FailedToParseBlock) =>
               /\ log[j].e = "ret" /\ log[j].f = "parse_value"
               /\ StartsWithNullScalar(log[CallOf(j)].c, log[j].n)

\* C29 happens: parse_value(2) was called with the cursor on the blank line
\* below `k:`, the block's first line `NULL` is at indentation 2, and the call
\* returned null, which parse() reported
C29_Witness ==
    /\ lines = <<<<"a", ":", " ", "1">>, <<"k", ":">>, <<>>, <<" ", " ", "N", "U", "L", "L">>,
                 <<"z", ":", " ", "2">>>>
    /\ pc = "error"
    /\ error.k \in FailedToParseBlock
    /\ \E j \in 1..Len(log) :
           /\ log[j] = Ev("call", "parse_value", 2, 2)
           /\ BlockLine(2) = 4
           /\ parse_value(Self, 2, 2, <<>>).v = VNull
           /\ StartsWithNullScalar(2, 2)

\* the position (0-based) after the optional sign of the token
AfterSign(tok) == IF tok[1] \in {"+", "-"} THEN 1 ELSE 0

\* the leading decimal digits of the token, after its optional sign
LeadingDigits(tok) == SubSeq(tok, AfterSign(tok) + 1, DigitsEnd(tok, AfterSign(tok), 10))

\* an unquoted token that is no keyword, has no base prefix, holds none of `.`,
\* `e`, `E`, and is an optional sign and one or more decimal digits followed by
\* one or more other characters
IsDigitsThenOther(tok) ==
    /\ tok # <<>>
    /\ ~IsQuoted(tok)
    /\ tok \notin (NullWords \cup TrueWords \cup FalseWords)
    /\ ~(Len(tok) >= 2 /\ tok[1] = "0" /\ tok[2] \in {"x", "X", "o", "O", "b", "B"})
    /\ \A i \in 1..Len(tok) : tok[i] \notin {".", "e", "E"}
    /\ LeadingDigits(tok) # <<>>
    /\ DigitsEnd(tok, AfterSign(tok), 10) < Len(tok)

\* the digits, free of leading zeros, with the sign, are within 64 bits
FitsLongLong(neg, ds) ==
    DigitsGeq(IF neg THEN LLONG_MIN_DIGITS ELSE LLONG_MAX_DIGITS, ds)

\* the integer of the sign and the digits (free of leading zeros) of a token
SignedInteger(neg, ds) ==
    IF Len(ds) <= 9
    THEN VInt(IF neg THEN 0 - PlaceValue(ds, 10, 0) ELSE PlaceValue(ds, 10, 0))
    ELSE VBig(neg, ds)

\* C30 (as the code has it): for an unquoted token that is no keyword, has no
\* base prefix, holds none of `.`, `e`, `E`, and begins with an optional sign and
\* decimal digits followed by other characters, the Scalar Resolver returns the
\* integer of the sign and the leading digits and drops the rest when that
\* integer is within 64 bits, and the whole token as a string when it is not
C30_LeadingDigitsKept ==
    (Ended /\ IsTokenDoc(lines) /\ IsDigitsThenOther(TokenOf(lines))) =>
        /\ pc = "done"
        /\ TokenValue =
               IF FitsLongLong(TokenOf(lines)[1] = "-", StripZeros(LeadingDigits(TokenOf(lines))))
               THEN SignedInteger(TokenOf(lines)[1] = "-",
                                  StripZeros(LeadingDigits(TokenOf(lines))))
               ELSE VStr(TokenOf(lines))

\* C30 happens: the token 2023-01-01 came back as the integer 2023
C30_Witness ==
    /\ IsTokenDoc(lines)
    /\ TokenOf(lines) = <<"2", "0", "2", "3", "-", "0", "1", "-", "0", "1">>
    /\ IsDigitsThenOther(TokenOf(lines))
    /\ pc = "done"
    /\ TokenValue = VInt(2023)

\* C30 (as stated): every such token comes back as the integer formed by its
\* leading digits, never as the original text
C30_LeadingDigitsAlwaysInteger ==
    (Ended /\ IsTokenDoc(lines) /\ IsDigitsThenOther(TokenOf(lines))) =>
        /\ pc = "done"
        /\ TokenValue = SignedInteger(TokenOf(lines)[1] = "-",
                                      StripZeros(LeadingDigits(TokenOf(lines))))

============================================================================
